---- MODULE Spec2Model ----
(***************************************************************************)
(* Model of the scholarship pipeline: ai_engine/data_processor.py          *)
(* (validation, family-aware deduplication, standardization, deadline      *)
(* normalization) and ai_engine/matcher.py (scoring and ranking).          *)
(*                                                                         *)
(* A Python str is a sequence of one-character strings, so that `in`,      *)
(* replace, split, strip, lower and the regular expressions are computed   *)
(* character by character as Python computes them.  A dict is a function   *)
(* whose DOMAIN is the set of keys present.                                *)
(***************************************************************************)
EXTENDS Integers, Sequences, FiniteSets, TLC

VARIABLES
    pc,             \* position of the driver: what has been called so far
    current_month,  \* datetime.now().month
    profile,        \* the requester's profile dict
    scholarships,   \* the list handed to the operation
    unique,         \* result of _smart_deduplicate(scholarships)
    unique2,        \* result of _smart_deduplicate(unique)
    ranked,         \* result of match_and_rank(scholarships, profile)
    record,         \* a single record handed to _standardize
    std1,           \* _standardize(record)
    std2,           \* _standardize(std1)
    deadline,       \* a deadline string handed to _normalize_deadline
    deadline_out,   \* _normalize_deadline(deadline)
    processed,      \* result of process_scholarships(scholarships)
    processed2,     \* result of process_scholarships(processed)
    given,          \* history: the content of scholarships when the call was made
    reordered,      \* the records of scholarships in another arrival order
    unique_r,       \* result of _smart_deduplicate(reordered)
    task,           \* _parallel_scrape: the state of each scraper's future
    result,         \* what each finished task returned
    yielded,        \* the scrapers whose future as_completed has yielded, in order
    all_scholarships, \* the aggregated list
    completed,      \* the counter of collected results
    runs,           \* how often get_scholarships was started for each scraper
    family_key,     \* _identify_family(record)
    sub_key,        \* _get_sub_key(record, family)
    components,     \* the five component scores of record under profile
    tried,          \* how many keywords of the family table were classified
    reached,        \* the family ids _identify_family has returned for them
    filters,        \* the filters dict handed to filter_scholarships
    now,            \* datetime.now(): <<year, month, day>> and whether it is 00:00:00.000000
    filtered,       \* result of filter_scholarships(scholarships, filters)
    validated       \* Step 1 of process_scholarships: the records that are valid

\* everything but pc that the data processor and the matcher work on
pipeline_vars == <<current_month, profile, scholarships, unique, unique2, ranked,
                   record, std1, std2, deadline, deadline_out, processed, processed2, given>>

\* the variables of the operations modelled further below
reorder_vars == <<reordered, unique_r>>

scrape_vars == <<task, result, yielded, all_scholarships, completed, runs>>

classify_vars == <<family_key, sub_key, components, tried, reached>>

filter_vars == <<filters, now, filtered, validated>>

further_vars == <<reorder_vars, scrape_vars, classify_vars, filter_vars>>

vars == <<pc, current_month, profile, scholarships, unique, unique2, ranked,
          record, std1, std2, deadline, deadline_out, processed, processed2, given,
          further_vars>>

----------------------------------------------------------------------------
(* Python str primitives *)

Whitespace == {" ", "\t", "\n"}

UpperCase == <<"A","B","C","D","E","F","G","H","I","J","K","L","M",
               "N","O","P","Q","R","S","T","U","V","W","X","Y","Z">>

LowerCase == <<"a","b","c","d","e","f","g","h","i","j","k","l","m",
               "n","o","p","q","r","s","t","u","v","w","x","y","z">>

DigitChars == <<"0","1","2","3","4","5","6","7","8","9">>

IsDigit(c) == \E i \in 1..Len(DigitChars) : DigitChars[i] = c

DigitValue(c) == (CHOOSE i \in 1..Len(DigitChars) : DigitChars[i] = c) - 1

\* \w of the re module, on the characters the model uses
IsWordChar(c) ==
    \/ IsDigit(c)
    \/ c = "_"
    \/ \E i \in 1..Len(LowerCase) : LowerCase[i] = c \/ UpperCase[i] = c
    \/ c \in {"u_uml", "i_dotless"}

\* the lower-case letter of each upper-case letter
LowerOf ==
    [c \in {UpperCase[i] : i \in 1..Len(UpperCase)} |->
        LowerCase[CHOOSE i \in 1..Len(UpperCase) : UpperCase[i] = c]]

LowerChar(c) == IF c \in DOMAIN LowerOf THEN LowerOf[c] ELSE c

\* str.lower()
RECURSIVE Lower(_)
Lower(s) == IF s = <<>> THEN <<>> ELSE <<LowerChar(s[1])>> \o Lower(Tail(s))

\* s[i:] of Python, 1-based
Drop(s, n) == SubSeq(s, n + 1, Len(s))

\* str.startswith(prefix)
StartsWith(s, prefix) ==
    /\ Len(prefix) <= Len(s)
    /\ SubSeq(s, 1, Len(prefix)) = prefix

\* `sub in s`
Contains(s, sub) ==
    \E i \in 1..(Len(s) - Len(sub) + 1) : SubSeq(s, i, i + Len(sub) - 1) = sub

\* str.replace(old, new): every non-overlapping occurrence, left to right
RECURSIVE Replace(_, _, _)
Replace(s, old, new) ==
    IF Len(s) < Len(old) THEN s
    ELSE IF StartsWith(s, old) THEN new \o Replace(Drop(s, Len(old)), old, new)
    ELSE <<s[1]>> \o Replace(Tail(s), old, new)

\* str.strip()
RECURSIVE LStrip(_)
LStrip(s) ==
    IF s # <<>> /\ s[1] \in Whitespace THEN LStrip(Tail(s)) ELSE s

RECURSIVE RStrip(_)
RStrip(s) ==
    IF s # <<>> /\ s[Len(s)] \in Whitespace
    THEN RStrip(SubSeq(s, 1, Len(s) - 1)) ELSE s

Strip(s) == RStrip(LStrip(s))

\* the length of the run of characters satisfying a class at the head of s
RECURSIVE WordLen(_)
WordLen(s) ==
    IF s = <<>> \/ s[1] \in Whitespace THEN 0 ELSE 1 + WordLen(Tail(s))

\* str.split(): the maximal runs of non-whitespace characters
RECURSIVE Split(_)
Split(s) ==
    IF s = <<>> THEN <<>>
    ELSE IF s[1] \in Whitespace THEN Split(Tail(s))
    ELSE <<SubSeq(s, 1, WordLen(s))>> \o Split(Drop(s, WordLen(s)))

\* sep.join(words)
RECURSIVE Join(_, _)
Join(sep, words) ==
    IF words = <<>> THEN <<>>
    ELSE IF Len(words) = 1 THEN words[1]
    ELSE words[1] \o sep \o Join(sep, Tail(words))

\* re.sub(r'\s+', ' ', s): every maximal whitespace run becomes one space
RECURSIVE CollapseWhitespace(_)
CollapseWhitespace(s) ==
    IF s = <<>> THEN <<>>
    ELSE IF s[1] \in Whitespace THEN <<" ">> \o CollapseWhitespace(LStrip(s))
    ELSE <<s[1]>> \o CollapseWhitespace(Tail(s))

\* set(re.findall(r'\w+', s))
RECURSIVE WordCharRun(_)
WordCharRun(s) ==
    IF s = <<>> \/ ~IsWordChar(s[1]) THEN 0 ELSE 1 + WordCharRun(Tail(s))

RECURSIVE FindallWords(_)
FindallWords(s) ==
    IF s = <<>> THEN {}
    ELSE IF ~IsWordChar(s[1]) THEN FindallWords(Tail(s))
    ELSE {SubSeq(s, 1, WordCharRun(s))} \cup FindallWords(Drop(s, WordCharRun(s)))

\* str(n) for an int n >= 0
RECURSIVE IntToStr(_)
IntToStr(n) ==
    IF n < 10 THEN <<DigitChars[n + 1]>>
    ELSE IntToStr(n \div 10) \o <<DigitChars[(n % 10) + 1]>>

\* dict.get(key, default)
Get(d, key, default) == IF key \in DOMAIN d THEN d[key] ELSE default

\* d[key] = value
Put(d, key, value) ==
    [k \in DOMAIN d \cup {key} |-> IF k = key THEN value ELSE d[k]]

\* list.sort(key=..., reverse=True) on a list of <<key, item>> pairs: a stable
\* sort, so items with equal keys keep their order also under reverse=True
RECURSIVE InsertDesc(_, _)
InsertDesc(sorted, pair) ==
    IF sorted = <<>> THEN <<pair>>
    ELSE IF sorted[1][1] >= pair[1] THEN <<sorted[1]>> \o InsertDesc(Tail(sorted), pair)
    ELSE <<pair>> \o sorted

RECURSIVE SortDescPairs(_)
SortDescPairs(pairs) ==
    IF pairs = <<>> THEN <<>>
    ELSE InsertDesc(SortDescPairs(SubSeq(pairs, 1, Len(pairs) - 1)), pairs[Len(pairs)])

RECURSIVE Items(_)
Items(pairs) == IF pairs = <<>> THEN <<>> ELSE <<pairs[1][2]>> \o Items(Tail(pairs))

SortDesc(keyed) == Items(SortDescPairs(keyed))

\* the orders in which iterating a Python set can yield its elements
Orderings(S) ==
    {q \in [1..Cardinality(S) -> S] : \A i, j \in 1..Cardinality(S) : i # j => q[i] # q[j]}

----------------------------------------------------------------------------
(* ai_engine/data_processor.py *)

\* SCHOLARSHIP_FAMILIES, in declaration order (a dict iterates in that order)
SCHOLARSHIP_FAMILIES == <<
    <<<<"d","a","a","d">>,             <<<<"d","a","a","d">>, <<"g","e","r","m","a","n"," ","a","c","a","d","e","m","i","c"," ","e","x","c","h","a","n","g","e">>>> >>,
    <<<<"e","r","a","s","m","u","s">>,          <<<<"e","r","a","s","m","u","s">>, <<"e","r","a","s","m","u","s","+">>, <<"e","r","a","s","m","u","s"," ","m","u","n","d","u","s">>, <<"e","r","a","s","m","u","s"," ","p","l","u","s">>>> >>,
    <<<<"f","u","l","b","r","i","g","h","t">>,        <<<<"f","u","l","b","r","i","g","h","t">>>> >>,
    <<<<"c","h","e","v","e","n","i","n","g">>,        <<<<"c","h","e","v","e","n","i","n","g">>>> >>,
    <<<<"c","o","m","m","o","n","w","e","a","l","t","h">>,     <<<<"c","o","m","m","o","n","w","e","a","l","t","h"," ","s","c","h","o","l","a","r","s","h","i","p">>, <<"c","o","m","m","o","n","w","e","a","l","t","h"," ","f","e","l","l","o","w","s","h","i","p">>>> >>,
    <<<<"h","e","c","_","o","v","e","r","s","e","a","s">>,     <<<<"h","e","c"," ","o","v","e","r","s","e","a","s">>>> >>,
    <<<<"h","e","c","_","i","n","d","i","g","e","n","o","u","s">>,   <<<<"h","e","c"," ","i","n","d","i","g","e","n","o","u","s">>, <<"i","p","d","p">>>> >>,
    <<<<"h","e","c","_","n","r","p","u">>,         <<<<"h","e","c"," ","n","r","p","u">>, <<"n","r","p","u">>>> >>,
    <<<<"h","e","c","_","c","o","m","m","o","n","w","e","a","l","t","h">>, <<<<"h","e","c"," ","c","o","m","m","o","n","w","e","a","l","t","h">>>> >>,
    <<<<"h","e","c","_","c","s","c">>,          <<<<"h","e","c"," ","c","h","i","n","e","s","e">>, <<"h","e","c"," ","c","s","c">>, <<"c","h","i","n","e","s","e"," ","g","o","v","e","r","n","m","e","n","t"," ","s","c","h","o","l","a","r","s","h","i","p">>>> >>,
    <<<<"h","e","c","_","u","s","a","i","d">>,        <<<<"h","e","c"," ","u","s","a","i","d">>>> >>,
    <<<<"h","e","c","_","t","u","r","k","e","y">>,       <<<<"h","e","c"," ","t","u","r","k","e","y">>, <<"t","u_uml","r","k","i","y","e"," ","b","u","r","s","l","a","r","i_dotless">>>> >>,
    <<<<"h","e","c","_","m","e","x","t">>,         <<<<"h","e","c"," ","j","a","p","a","n">>, <<"h","e","c"," ","m","e","x","t">>, <<"m","e","x","t"," ","s","c","h","o","l","a","r","s","h","i","p">>>> >>,
    <<<<"h","e","c","_","f","r","a","n","c","e">>,       <<<<"h","e","c"," ","f","r","a","n","c","e">>, <<"c","a","m","p","u","s"," ","f","r","a","n","c","e">>>> >>,
    <<<<"h","e","c","_","d","a","a","d">>,         <<<<"h","e","c","-","d","a","a","d">>, <<"h","e","c"," ","d","a","a","d">>>> >>,
    <<<<"g","s","s","p">>,             <<<<"g","r","a","d","u","a","t","e"," ","s","c","h","o","o","l"," ","s","c","h","o","l","a","r","s","h","i","p"," ","p","r","o","g","r","a","m","m","e">>, <<"g","s","s","p">>>> >>,
    <<<<"e","p","o","s">>,             <<<<"e","p","o","s"," ","s","c","h","o","l","a","r","s","h","i","p">>, <<"d","e","v","e","l","o","p","m","e","n","t","-","r","e","l","a","t","e","d"," ","p","o","s","t","g","r","a","d","u","a","t","e">>>> >>
>>

\* the alternatives of the first three noise patterns of _is_valid
NoiseLabels == {
    <<"h","o","m","e">>, <<"a","b","o","u","t">>, <<"c","o","n","t","a","c","t">>, <<"l","o","g","i","n">>, <<"s","i","g","n"," ","u","p">>, <<"s","u","b","s","c","r","i","b","e">>, <<"f","o","l","l","o","w"," ","u","s">>,
    <<"f","a","c","e","b","o","o","k">>, <<"i","n","s","t","a","g","r","a","m">>, <<"t","w","i","t","t","e","r">>, <<"l","i","n","k","e","d","i","n">>, <<"y","o","u","t","u","b","e">>, <<"x",".","c","o","m">>,
    <<"c","o","o","k","i","e">>, <<"p","r","i","v","a","c","y">>, <<"t","e","r","m","s">>, <<"m","e","n","u">>, <<"n","a","v","i","g","a","t","i","o","n">>, <<"s","e","a","r","c","h">>, <<"s","h","a","r","e">> }

MinTitleLen == 5

ShortTitleLen == 10

\* re.match(r'^(a|b|...)$', t, re.I): $ also matches before a final newline
MatchesNoiseLabel(t) ==
    \E w \in NoiseLabels : Lower(t) = w \/ Lower(t) = w \o <<"\n">>

\* re.match(r'^.{0,10}$', t): `.` matches no newline
MatchesShortTitle(t) ==
    \E n \in 0..ShortTitleLen :
        /\ n <= Len(t)
        /\ \A i \in 1..n : t[i] # "\n"
        /\ (Len(t) = n \/ (Len(t) = n + 1 /\ t[Len(t)] = "\n"))

\* the checks made on the title as it came, without strip()
_is_valid_untrimmed(scholarship) ==
    LET title == Get(scholarship, "title", <<>>)
        title_lower == Lower(title)
    IN  IF title = <<>> \/ Len(title) < MinTitleLen THEN FALSE
        ELSE ~(MatchesNoiseLabel(title_lower) \/ MatchesShortTitle(title_lower))

_is_valid(scholarship) ==
    LET title == Strip(Get(scholarship, "title", <<>>))
        title_lower == Strip(Lower(title))
    IN  IF title = <<>> \/ Len(title) < MinTitleLen THEN FALSE
        ELSE ~(MatchesNoiseLabel(title_lower) \/ MatchesShortTitle(title_lower))

\* the loop over SCHOLARSHIP_FAMILIES.items() from family i on: the first
\* family one of whose keywords occurs in combined
RECURSIVE FirstFamily(_, _)
FirstFamily(combined, i) ==
    IF i > Len(SCHOLARSHIP_FAMILIES) THEN <<>>
    ELSE IF \E k \in 1..Len(SCHOLARSHIP_FAMILIES[i][2]) :
                Contains(combined, SCHOLARSHIP_FAMILIES[i][2][k])
    THEN SCHOLARSHIP_FAMILIES[i][1]
    ELSE FirstFamily(combined, i + 1)

\* a classification that looks at the title alone
_identify_family_title_only(scholarship) ==
    FirstFamily(Lower(Get(scholarship, "title", <<>>)), 1)

_identify_family(scholarship) ==
    LET title == Lower(Get(scholarship, "title", <<>>))
        url == Lower(Get(scholarship, "url", <<>>))
    IN  FirstFamily(title \o <<" ">> \o url, 1)

\* the sub-key without the rule that merges all Erasmus records
_get_sub_key_erasmus_by_degree(scholarship, family) ==
    LET title == Lower(Get(scholarship, "title", <<>>))
        degree == Lower(Get(scholarship, "degree", <<>>))
    IN  IF family = <<"d","a","a","d">> THEN
            IF Contains(title, <<"g","s","s","p">>) \/ Contains(title, <<"g","r","a","d","u","a","t","e"," ","s","c","h","o","o","l">>) THEN <<"g","s","s","p">>
            ELSE IF Contains(title, <<"e","p","o","s">>) \/ Contains(title, <<"d","e","v","e","l","o","p","m","e","n","t","-","r","e","l","a","t","e","d">>) THEN <<"e","p","o","s">>
            ELSE IF Contains(title, <<"s","t","u","d","y"," ","s","c","h","o","l","a","r","s","h","i","p">>) \/ Contains(title, <<"a","l","l"," ","d","i","s","c","i","p","l","i","n","e","s">>) THEN <<"s","t","u","d","y">>
            ELSE IF Contains(title, <<"r","e","s","e","a","r","c","h"," ","g","r","a","n","t">>) THEN <<"r","e","s","e","a","r","c","h">>
            ELSE IF Contains(title, <<"s","t","i","b","e","t">>) THEN <<"s","t","i","b","e","t">>
            ELSE <<"g","e","n","e","r","a","l">>
        ELSE IF StartsWith(family, <<"h","e","c","_">>) THEN family
        ELSE IF degree # <<>> THEN degree ELSE <<"g","e","n","e","r","a","l">>

_get_sub_key(scholarship, family) ==
    LET title == Lower(Get(scholarship, "title", <<>>))
        degree == Lower(Get(scholarship, "degree", <<>>))
    IN  IF family = <<"d","a","a","d">> THEN
            IF Contains(title, <<"g","s","s","p">>) \/ Contains(title, <<"g","r","a","d","u","a","t","e"," ","s","c","h","o","o","l">>) THEN <<"g","s","s","p">>
            ELSE IF Contains(title, <<"e","p","o","s">>) \/ Contains(title, <<"d","e","v","e","l","o","p","m","e","n","t","-","r","e","l","a","t","e","d">>) THEN <<"e","p","o","s">>
            ELSE IF Contains(title, <<"s","t","u","d","y"," ","s","c","h","o","l","a","r","s","h","i","p">>) \/ Contains(title, <<"a","l","l"," ","d","i","s","c","i","p","l","i","n","e","s">>) THEN <<"s","t","u","d","y">>
            ELSE IF Contains(title, <<"r","e","s","e","a","r","c","h"," ","g","r","a","n","t">>) THEN <<"r","e","s","e","a","r","c","h">>
            ELSE IF Contains(title, <<"s","t","i","b","e","t">>) THEN <<"s","t","i","b","e","t">>
            ELSE <<"g","e","n","e","r","a","l">>
        ELSE IF StartsWith(family, <<"h","e","c","_">>) THEN family
        ELSE IF family = <<"e","r","a","s","m","u","s">> THEN <<"m","a","i","n">>
        ELSE IF degree # <<>> THEN degree ELSE <<"g","e","n","e","r","a","l">>

\* a grouping by family alone
FullKey_family_only(scholarship, family) == family

\* f"{family}:{sub_key}"
FullKey(scholarship, family) ==
    family \o <<":">> \o _get_sub_key(scholarship, family)

CompletenessFields ==
    <<"title", "country", "degree", "field", "duration",
      "funding", "eligibility", "documents", "deadline", "url">>

Placeholders == {
    <<"N","/","A">>, <<"V","a","r","i","e","s">>, <<"N","o","t"," ","s","p","e","c","i","f","i","e","d">>, <<"S","e","e"," ","w","e","b","s","i","t","e">>,
    <<"C","h","e","c","k"," ","w","e","b","s","i","t","e">>, <<"V","a","r","i","o","u","s">>, <<"R","o","l","l","i","n","g">>, <<"R","o","l","l","i","n","g"," ","d","e","a","d","l","i","n","e","s">> }

RECURSIVE CompletenessFrom(_, _)
CompletenessFrom(sch, i) ==
    IF i > Len(CompletenessFields) THEN 0
    ELSE LET value == Get(sch, CompletenessFields[i], <<>>)
         IN  (IF value # <<>> /\ value \notin Placeholders THEN Len(value) ELSE 0)
             + CompletenessFrom(sch, i + 1)

\* a score that also counts the placeholder values
RECURSIVE CompletenessAllFrom(_, _)
CompletenessAllFrom(sch, i) ==
    IF i > Len(CompletenessFields) THEN 0
    ELSE Len(Get(sch, CompletenessFields[i], <<>>)) + CompletenessAllFrom(sch, i + 1)

completeness_score_with_placeholders(sch) == CompletenessAllFrom(sch, 1)

completeness_score(sch) == CompletenessFrom(sch, 1)

\* set(sch.get('url', '') for sch in group if sch.get('url'))
GroupUrls(group) ==
    {Get(group[i], "url", <<>>) : i \in {j \in 1..Len(group) : Get(group[j], "url", <<>>) # <<>>}}

\* _pick_best_entry: list(set(...)) yields the URLs in the set's iteration
\* order, which the hash seed of the process decides: every order is possible
_pick_best_entry(group) ==
    IF Len(group) = 1 THEN {group[1]}
    ELSE LET sorted == SortDesc([i \in 1..Len(group) |-> <<completeness_score(group[i]), group[i]>>])
             best == sorted[1]
             all_urls == GroupUrls(group)
         IN  IF Cardinality(all_urls) > 1
             THEN {Put(best, "alternate_urls", q) : q \in Orderings(all_urls)}
             ELSE {best}

NoiseWords == <<
    <<"s","c","h","o","l","a","r","s","h","i","p">>, <<"s","c","h","o","l","a","r","s","h","i","p","s">>, <<"p","r","o","g","r","a","m">>, <<"p","r","o","g","r","a","m","m","e">>,
    <<"t","h","e">>, <<"a","n","d">>, <<"f","o","r">>, <<"i","n">>, <<"a","t">>, <<"t","o">>, <<"o","f">>, <<"o","n">>,
    <<"-">>, <<"en_dash">>, <<"em_dash">>, <<"(">>, <<")">>, <<",">>, <<".">> >>

SignatureWords == 5

RECURSIVE ReplaceNoise(_, _)
ReplaceNoise(title, i) ==
    IF i > Len(NoiseWords) THEN title
    ELSE ReplaceNoise(Replace(title, NoiseWords[i], <<" ">>), i + 1)

_normalize_title(title) ==
    LET t1 == Strip(Lower(title))
        t2 == ReplaceNoise(t1, 1)
        t3 == Strip(CollapseWhitespace(t2))
        words == Split(t3)
    IN  Join(<<" ">>, SubSeq(words, 1, IF Len(words) < SignatureWords THEN Len(words) ELSE SignatureWords))

\* Step 1 of _smart_deduplicate: family_groups as the list of its (key, group)
\* items in insertion order, and the ungrouped list
RECURSIVE GroupByFamily(_, _, _, _)
GroupByFamily(schs, i, groups, ungrouped) ==
    IF i > Len(schs) THEN <<groups, ungrouped>>
    ELSE LET sch == schs[i]
             family == _identify_family(sch)
             full_key == FullKey(sch, family)
         IN  IF family # <<>> THEN
                 IF \E g \in 1..Len(groups) : groups[g][1] = full_key
                 THEN GroupByFamily(schs, i + 1,
                          [g \in 1..Len(groups) |->
                              IF groups[g][1] = full_key
                              THEN <<full_key, Append(groups[g][2], sch)>>
                              ELSE groups[g]],
                          ungrouped)
                 ELSE GroupByFamily(schs, i + 1, Append(groups, <<full_key, <<sch>>>>), ungrouped)
             ELSE GroupByFamily(schs, i + 1, groups, Append(ungrouped, sch))

\* Step 2: one best entry per group, in the dict's order
RECURSIVE PickAll(_, _)
PickAll(groups, g) ==
    IF g > Len(groups) THEN {<<>>}
    ELSE {<<best>> \o rest : best \in _pick_best_entry(groups[g][2]), rest \in PickAll(groups, g + 1)}

\* a set that remembers only the signature added last
SeenAfter_last_only(seen_titles, normalized) == {normalized}

\* seen_titles.add(normalized)
SeenAfter(seen_titles, normalized) == seen_titles \cup {normalized}

\* a step 3 that takes every later record for a duplicate of the first
DedupUngrouped_first_only(ungrouped, i, seen_titles) ==
    IF i > Len(ungrouped) THEN <<>> ELSE <<ungrouped[i]>>

\* a step 3 that drops nothing
DedupUngrouped_keep_all(ungrouped, i, seen_titles) ==
    SubSeq(ungrouped, i, Len(ungrouped))

\* Step 3: the ungrouped records whose normalized title was not seen before
RECURSIVE DedupUngrouped(_, _, _)
DedupUngrouped(ungrouped, i, seen_titles) ==
    IF i > Len(ungrouped) THEN <<>>
    ELSE LET normalized == _normalize_title(Get(ungrouped[i], "title", <<>>))
         IN  IF normalized \notin seen_titles
             THEN <<ungrouped[i]>> \o DedupUngrouped(ungrouped, i + 1, SeenAfter(seen_titles, normalized))
             ELSE DedupUngrouped(ungrouped, i + 1, seen_titles)

\* Step 3 looping over ungrouped[1:]
_smart_deduplicate_skip_first(schs) ==
    LET parts == GroupByFamily(schs, 1, <<>>, <<>>)
    IN  {picked \o DedupUngrouped(parts[2], 2, {}) : picked \in PickAll(parts[1], 1)}

\* the lists _smart_deduplicate can return
_smart_deduplicate(schs) ==
    LET parts == GroupByFamily(schs, 1, <<>>, <<>>)
    IN  {picked \o DedupUngrouped(parts[2], 1, {}) : picked \in PickAll(parts[1], 1)}

SkipDeadlines == {
    <<"N","/","A">>, <<"N","o","t"," ","s","p","e","c","i","f","i","e","d">>, <<"V","a","r","i","e","s">>, <<"C","h","e","c","k"," ","w","e","b","s","i","t","e">>,
    <<"R","o","l","l","i","n","g">>, <<"R","o","l","l","i","n","g"," ","d","e","a","d","l","i","n","e","s">>, <<"V","a","r","i","e","s"," ","b","y"," ","p","r","o","g","r","a","m">>,
    <<"V","a","r","i","e","s"," ","b","y"," ","p","r","o","g","r","a","m","m","e">>, <<"O","p","e","n"," ","y","e","a","r","-","r","o","u","n","d">> }

CutoffYear == 2025

FollowingYear == 2026

\* month_names, in the dict's insertion order
month_names == <<
    <<<<"j","a","n","u","a","r","y">>, 1>>, <<<<"f","e","b","r","u","a","r","y">>, 2>>, <<<<"m","a","r","c","h">>, 3>>, <<<<"a","p","r","i","l">>, 4>>,
    <<<<"m","a","y">>, 5>>, <<<<"j","u","n","e">>, 6>>, <<<<"j","u","l","y">>, 7>>, <<<<"a","u","g","u","s","t">>, 8>>,
    <<<<"s","e","p","t","e","m","b","e","r">>, 9>>, <<<<"o","c","t","o","b","e","r">>, 10>>, <<<<"n","o","v","e","m","b","e","r">>, 11>>, <<<<"d","e","c","e","m","b","e","r">>, 12>>,
    <<<<"j","a","n">>, 1>>, <<<<"f","e","b">>, 2>>, <<<<"m","a","r">>, 3>>, <<<<"a","p","r">>, 4>>,
    <<<<"j","u","n">>, 6>>, <<<<"j","u","l">>, 7>>, <<<<"a","u","g">>, 8>>, <<<<"s","e","p">>, 9>>,
    <<<<"o","c","t">>, 10>>, <<<<"n","o","v">>, 11>>, <<<<"d","e","c">>, 12>> >>

\* a match of r'20(\d{2})' starts at position i of s
YearMatchAt(s, i) ==
    /\ i >= 1 /\ i + 3 <= Len(s)
    /\ s[i] = "2" /\ s[i + 1] = "0"
    /\ IsDigit(s[i + 2]) /\ IsDigit(s[i + 3])

\* re.search(r'20(\d{2})', s): the position of the leftmost match, 0 for None
YearSearch(s) ==
    IF \E i \in 1..Len(s) : YearMatchAt(s, i)
    THEN CHOOSE i \in 1..Len(s) : YearMatchAt(s, i) /\ \A j \in 1..(i - 1) : ~YearMatchAt(s, j)
    ELSE 0

\* int('20' + year_match.group(1))
YearAt(s, i) == 2000 + 10 * DigitValue(s[i + 2]) + DigitValue(s[i + 3])

\* the loop over month_names.items(): the first entry whose name occurs
FirstMonth(deadline_lower) ==
    IF \E k \in 1..Len(month_names) : Contains(deadline_lower, month_names[k][1])
    THEN CHOOSE k \in 1..Len(month_names) :
             /\ Contains(deadline_lower, month_names[k][1])
             /\ \A j \in 1..(k - 1) : ~Contains(deadline_lower, month_names[j][1])
    ELSE 0

\* `year < 2025` with the cutoff one year early
PastYear_off_by_one(year) == year < CutoffYear - 1

\* the test `year < 2025`
PastYear(year) == year < CutoffYear

\* the month test with > for >=
YearForMonth_strict(month_num, month_now) ==
    IF month_num > month_now THEN CutoffYear ELSE FollowingYear

\* the year chosen for a month without a year
YearForMonth(month_num, month_now) ==
    IF month_num >= month_now THEN CutoffYear ELSE FollowingYear

_normalize_deadline(dl, month_now) ==
    IF dl = <<>> \/ dl \in SkipDeadlines THEN dl
    ELSE IF YearSearch(dl) # 0 THEN
        LET year == YearAt(dl, YearSearch(dl))
        IN  IF PastYear(year)
            THEN Replace(dl, IntToStr(year), IntToStr(CutoffYear))
            ELSE dl
    ELSE IF FirstMonth(Lower(dl)) # 0 THEN
        dl \o <<" ">> \o IntToStr(YearForMonth(month_names[FirstMonth(Lower(dl))][2], month_now))
    ELSE dl \o <<" ","(","2","0","2","5","/","2","0","2","6",")">>

country_map == <<
    <<<<"u","s","a">>, <<"U","n","i","t","e","d"," ","S","t","a","t","e","s">>>>, <<<<"u","k">>, <<"U","n","i","t","e","d"," ","K","i","n","g","d","o","m">>>>,
    <<<<"u","s">>, <<"U","n","i","t","e","d"," ","S","t","a","t","e","s">>>>, <<<<"b","r","i","t","a","i","n">>, <<"U","n","i","t","e","d"," ","K","i","n","g","d","o","m">>>>,
    <<<<"d","e","u","t","s","c","h","l","a","n","d">>, <<"G","e","r","m","a","n","y">>>> >>

_standardize_country(country) ==
    LET country_lower == Strip(Lower(country))
    IN  IF \E k \in 1..Len(country_map) : country_map[k][1] = country_lower
        THEN country_map[CHOOSE k \in 1..Len(country_map) : country_map[k][1] = country_lower][2]
        ELSE Strip(country)

\* the classification with the test for 'postdoc' ahead of the others
_standardize_degree_postdoc_first(degree) ==
    LET degree_lower == Lower(degree)
    IN  IF Contains(degree_lower, <<"p","o","s","t","d","o","c">>)
        THEN <<"P","o","s","t","d","o","c","t","o","r","a","l">>
        ELSE IF Contains(degree_lower, <<"b","a","c","h","e","l","o","r">>) \/ Contains(degree_lower, <<"u","n","d","e","r","g","r","a","d","u","a","t","e">>)
        THEN <<"B","a","c","h","e","l","o","r","'","s">>
        ELSE IF Contains(degree_lower, <<"m","a","s","t","e","r">>) \/ Contains(degree_lower, <<"p","o","s","t","g","r","a","d","u","a","t","e">>)
        THEN <<"M","a","s","t","e","r","'","s">>
        ELSE IF \/ Contains(degree_lower, <<"p","h","d">>)
                \/ Contains(degree_lower, <<"d","o","c","t","o","r","a","l">>)
                \/ Contains(degree_lower, <<"d","o","c","t","o","r","a","t","e">>)
        THEN <<"P","h","D">>
        ELSE degree

_standardize_degree(degree) ==
    LET degree_lower == Lower(degree)
    IN  IF Contains(degree_lower, <<"b","a","c","h","e","l","o","r">>) \/ Contains(degree_lower, <<"u","n","d","e","r","g","r","a","d","u","a","t","e">>)
        THEN <<"B","a","c","h","e","l","o","r","'","s">>
        ELSE IF Contains(degree_lower, <<"m","a","s","t","e","r">>) \/ Contains(degree_lower, <<"p","o","s","t","g","r","a","d","u","a","t","e">>)
        THEN <<"M","a","s","t","e","r","'","s">>
        ELSE IF \/ Contains(degree_lower, <<"p","h","d">>)
                \/ Contains(degree_lower, <<"d","o","c","t","o","r","a","l">>)
                \/ Contains(degree_lower, <<"d","o","c","t","o","r","a","t","e">>)
        THEN <<"P","h","D">>
        ELSE IF Contains(degree_lower, <<"p","o","s","t","d","o","c">>)
        THEN <<"P","o","s","t","d","o","c","t","o","r","a","l">>
        ELSE degree

_clean_text(text) ==
    IF text = <<>> THEN <<"N","o","t"," ","s","p","e","c","i","f","i","e","d">>
    ELSE LET t1 == Join(<<" ">>, Split(text))
             t2 == Replace(t1, <<"&","n","b","s","p",";">>, <<" ">>)
             t3 == Replace(t2, <<"&","a","m","p",";">>, <<"&">>)
         IN  Strip(t3)

TextFields == {"title", "field", "duration", "funding", "eligibility", "documents"}

_standardize(scholarship) ==
    LET cleaned == [k \in DOMAIN scholarship \cup {"country", "degree"} |->
                       IF k = "country" THEN _standardize_country(Get(scholarship, "country", <<>>))
                       ELSE IF k = "degree" THEN _standardize_degree(Get(scholarship, "degree", <<>>))
                       ELSE IF k \in TextFields THEN _clean_text(scholarship[k])
                       ELSE scholarship[k]]
        url == Get(cleaned, "url", <<>>)
    IN  IF url # <<>> /\ ~StartsWith(url, <<"h","t","t","p">>)
        THEN Put(cleaned, "url", <<"h","t","t","p","s",":","/","/">> \o url)
        ELSE cleaned

\* Step 3 without Step 4
StandardizeAndDate_without_date(sch, month_now) == _standardize(sch)

\* Steps 3 and 4 of process_scholarships on one deduplicated record
StandardizeAndDate(sch, month_now) ==
    Put(_standardize(sch), "deadline",
        _normalize_deadline(Get(_standardize(sch), "deadline", <<>>), month_now))

\* the lists process_scholarships can return
process_scholarships(schs, month_now) ==
    LET valid_scholarships == SelectSeq(schs, _is_valid)
    IN  {[i \in 1..Len(unique_scholarships) |-> StandardizeAndDate(unique_scholarships[i], month_now)] :
            unique_scholarships \in _smart_deduplicate(valid_scholarships)}

----------------------------------------------------------------------------
(* ai_engine/matcher.py.  The scores are whole numbers of points; a cgpa is  *)
(* held in hundredths of a grade point.                                     *)

AnyCountry == <<"A","n","y"," ","C","o","u","n","t","r","y">>

\* the country score with '' for the default of the profile's country
_score_country_default_empty(scholarship, prof) ==
    LET desired_country == Get(prof, "country", <<>>)
        sch_country == Lower(Get(scholarship, "country", <<>>))
    IN  IF desired_country = AnyCountry THEN 15
        ELSE IF Contains(sch_country, Lower(desired_country)) THEN 30
        ELSE IF Contains(sch_country, <<"v","a","r","i","o","u","s">>) \/ Contains(sch_country, <<"m","u","l","t","i","p","l","e">>) THEN 20
        ELSE 5

\* the country score comparing the desired country as the profile writes it
_score_country_case_sensitive(scholarship, prof) ==
    LET desired_country == Get(prof, "country", AnyCountry)
        sch_country == Lower(Get(scholarship, "country", <<>>))
    IN  IF desired_country = AnyCountry THEN 15
        ELSE IF Contains(sch_country, desired_country) THEN 30
        ELSE IF Contains(sch_country, <<"v","a","r","i","o","u","s">>) \/ Contains(sch_country, <<"m","u","l","t","i","p","l","e">>) THEN 20
        ELSE 5

_score_country(scholarship, prof) ==
    LET desired_country == Get(prof, "country", AnyCountry)
        sch_country == Lower(Get(scholarship, "country", <<>>))
    IN  IF desired_country = AnyCountry THEN 15
        ELSE IF Contains(sch_country, Lower(desired_country)) THEN 30
        ELSE IF Contains(sch_country, <<"v","a","r","i","o","u","s">>) \/ Contains(sch_country, <<"m","u","l","t","i","p","l","e">>) THEN 20
        ELSE 5

degree_keywords == <<
    <<<<"b","a","c","h","e","l","o","r">>,     <<<<"u","n","d","e","r","g","r","a","d","u","a","t","e">>, <<"b","a","c","h","e","l","o","r">>>> >>,
    <<<<"m","a","s","t","e","r">>,       <<<<"m","a","s","t","e","r">>, <<"g","r","a","d","u","a","t","e">>, <<"p","o","s","t","g","r","a","d","u","a","t","e">>>> >>,
    <<<<"p","h","d">>,          <<<<"p","h","d">>, <<"d","o","c","t","o","r","a","l">>, <<"d","o","c","t","o","r","a","t","e">>>> >>,
    <<<<"p","o","s","t","d","o","c","t","o","r","a","l">>, <<<<"p","o","s","t","d","o","c">>, <<"p","o","s","t","d","o","c","t","o","r","a","l">>>> >> >>

_score_degree(scholarship, prof) ==
    LET desired_degree == Lower(Get(prof, "degree_level", <<>>))
        sch_degree == Lower(Get(scholarship, "degree", <<>>))
    IN  IF desired_degree = <<>> \/ sch_degree = <<>> THEN 10
        ELSE IF Contains(sch_degree, desired_degree) THEN 25
        ELSE IF \E k \in 1..Len(degree_keywords) :
                    /\ Contains(desired_degree, degree_keywords[k][1])
                    /\ \E w \in 1..Len(degree_keywords[k][2]) :
                           Contains(sch_degree, degree_keywords[k][2][w])
        THEN 20
        ELSE IF Contains(sch_degree, <<"a","l","l">>) \/ Contains(sch_degree, <<"v","a","r","i","o","u","s">>) THEN 12
        ELSE 5

field_groups == <<
    <<<<"e","n","g","i","n","e","e","r","i","n","g">>, <<<<"t","e","c","h","n","o","l","o","g","y">>, <<"t","e","c","h","n","i","c","a","l">>, <<"s","t","e","m">>>> >>,
    <<<<"c","o","m","p","u","t","e","r">>,    <<<<"i","t">>, <<"t","e","c","h","n","o","l","o","g","y">>, <<"d","a","t","a">>, <<"s","o","f","t","w","a","r","e">>>> >>,
    <<<<"s","c","i","e","n","c","e">>,     <<<<"n","a","t","u","r","a","l">>, <<"s","t","e","m">>, <<"r","e","s","e","a","r","c","h">>>> >>,
    <<<<"b","u","s","i","n","e","s","s">>,    <<<<"m","a","n","a","g","e","m","e","n","t">>, <<"m","b","a">>, <<"c","o","m","m","e","r","c","e">>>> >>,
    <<<<"m","e","d","i","c","a","l">>,     <<<<"h","e","a","l","t","h">>, <<"m","e","d","i","c","i","n","e">>, <<"c","l","i","n","i","c","a","l">>>> >> >>

\* the field score that takes only the record field 'all' for neutral
_score_field_exact_all(scholarship, prof) ==
    LET desired_field == Lower(Get(prof, "field_of_study", <<"A","l","l"," ","F","i","e","l","d","s">>))
        sch_field == Lower(Get(scholarship, "field", <<>>))
    IN  IF desired_field = <<"a","l","l"," ","f","i","e","l","d","s">> \/ sch_field = <<"a","l","l">> THEN 10
        ELSE IF FindallWords(desired_field) \cap FindallWords(sch_field) # {} THEN 20
        ELSE IF \E k \in 1..Len(field_groups) :
                    /\ Contains(desired_field, field_groups[k][1])
                    /\ \E w \in 1..Len(field_groups[k][2]) :
                           Contains(sch_field, field_groups[k][2][w])
        THEN 15
        ELSE 5

_score_field(scholarship, prof) ==
    LET desired_field == Lower(Get(prof, "field_of_study", <<"A","l","l"," ","F","i","e","l","d","s">>))
        sch_field == Lower(Get(scholarship, "field", <<>>))
    IN  IF desired_field = <<"a","l","l"," ","f","i","e","l","d","s">> \/ Contains(sch_field, <<"a","l","l">>) THEN 10
        ELSE IF FindallWords(desired_field) \cap FindallWords(sch_field) # {} THEN 20
        ELSE IF \E k \in 1..Len(field_groups) :
                    /\ Contains(desired_field, field_groups[k][1])
                    /\ \E w \in 1..Len(field_groups[k][2]) :
                           Contains(sch_field, field_groups[k][2][w])
        THEN 15
        ELSE 5

\* a score proportional to the cgpa, 15 points at 4.0
_score_cgpa_linear(scholarship, prof) == (Get(prof, "cgpa", 0) * 15) \div 400

_score_cgpa(scholarship, prof) ==
    LET cgpa == Get(prof, "cgpa", 0)
    IN  IF cgpa >= 350 THEN 15
        ELSE IF cgpa >= 300 THEN 12
        ELSE IF cgpa >= 250 THEN 8
        ELSE 5

_score_funding(scholarship) ==
    LET funding == Lower(Get(scholarship, "funding", <<>>))
    IN  IF Contains(funding, <<"f","u","l","l">>) \/ Contains(funding, <<"f","u","l","l","y"," ","f","u","n","d","e","d">>) THEN 10
        ELSE IF Contains(funding, <<"p","a","r","t","i","a","l">>) THEN 6
        ELSE 3

MaxScore == 100

_calculate_match_score(scholarship, prof) ==
    LET score == _score_country(scholarship, prof)
               + _score_degree(scholarship, prof)
               + _score_field(scholarship, prof)
               + _score_cgpa(scholarship, prof)
               + _score_funding(scholarship)
    IN  IF score < MaxScore THEN score ELSE MaxScore

\* the loop of match_and_rank: every dict of the list gets its match_score
RECURSIVE Scored(_, _)
Scored(schs, prof) ==
    IF schs = <<>> THEN <<>>
    ELSE <<Put(schs[1], "match_score", _calculate_match_score(schs[1], prof))>>
             \o Scored(Tail(schs), prof)

\* each record paired with its sort key x['match_score']
RECURSIVE KeyedByScore(_)
KeyedByScore(scored) ==
    IF scored = <<>> THEN <<>>
    ELSE <<<<scored[1].match_score, scored[1]>>>> \o KeyedByScore(Tail(scored))

RECURSIVE Reverse(_)
Reverse(s) == IF s = <<>> THEN <<>> ELSE Reverse(Tail(s)) \o <<s[1]>>

\* an ascending sort followed by a reversal: equal scores come out reversed
match_and_rank_reversed_ties(schs, prof) ==
    SortDesc(KeyedByScore(Reverse(Scored(schs, prof))))

\* scored_scholarships.sort(key=lambda x: x['match_score'], reverse=True)
match_and_rank(schs, prof) == SortDesc(KeyedByScore(Scored(schs, prof)))

----------------------------------------------------------------------------
(* Inputs *)

\* the lists of at most n elements of pool
Lists(pool, n) == UNION {[1..k -> pool] : k \in 0..n}

\* the dict d without the keys outside keys
Restrict(d, keys) == [k \in DOMAIN d \cap keys |-> d[k]]

EmptyDict == <<>>

\* the variables an operation does not use
IdleClock == current_month = 1
IdleMatch == profile = EmptyDict /\ ranked = <<>>
IdleDedup == unique = <<>> /\ unique2 = <<>>
IdleStandardize == record = EmptyDict /\ std1 = EmptyDict /\ std2 = EmptyDict
IdleDeadline == deadline = <<>> /\ deadline_out = <<>>
IdleProcess == processed = <<>> /\ processed2 = <<>>
IdleList == scholarships = <<>> /\ given = <<>>
IdleReorder == reordered = <<>> /\ unique_r = <<>>
IdleScrape ==
    /\ task = <<>> /\ result = <<>> /\ yielded = <<>>
    /\ all_scholarships = <<>> /\ completed = 0 /\ runs = <<>>
IdleClassify ==
    /\ family_key = <<>> /\ sub_key = <<>> /\ components = <<>>
    /\ tried = 0 /\ reached = {}
IdleFilter ==
    /\ filters = <<>> /\ now = <<>> /\ filtered = <<>>
    /\ validated = <<>>
IdleFurther == IdleReorder /\ IdleScrape /\ IdleClassify /\ IdleFilter
IdlePipeline ==
    /\ IdleClock /\ IdleMatch /\ IdleDedup /\ IdleStandardize
    /\ IdleDeadline /\ IdleProcess /\ IdleList

----------------------------------------------------------------------------
(* _smart_deduplicate on lists of validated records, called twice *)

MaxRecords == 3

DedupPool == {
    [title |-> <<"D","A","A","D"," ","G","r","a","d","u","a","t","e"," ","S","c","h","o","o","l"," ","S","c","h","o","l","a","r","s","h","i","p">>, url |-> <<"d","a","a","d",".","d","e","/","g","s","s","p">>,
     degree |-> <<"P","h","D">>, funding |-> <<"F","u","l","l">>],
    [title |-> <<"d","a","a","d"," ","g","r","a","d","u","a","t","e"," ","s","c","h","o","o","l"," ","s","c","h","o","l","a","r","s","h","i","p">>, url |-> <<"d","a","a","d",".","d","e","/","G","S","S","P">>,
     degree |-> <<"P","h","D">>, funding |-> <<"f","u","l","l">>],
    [title |-> <<"D","A","A","D"," ","G","S","S","P"," ","2","0","2","5"," ","c","a","l","l">>, url |-> <<"h","t","t","p","s",":","/","/","x",".","o","r","g","/","a">>,
     country |-> <<"G","e","r","m","a","n","y">>, deadline |-> <<"R","o","l","l","i","n","g">>, field |-> <<"A","l","l">>],
    [title |-> <<"D","A","A","D"," ","R","e","s","e","a","r","c","h"," ","G","r","a","n","t">>, url |-> <<"d","a","a","d",".","d","e","/","r","e","s","e","a","r","c","h">>, degree |-> <<"P","h","D">>],
    [title |-> <<"F","u","l","b","r","i","g","h","t"," ","F","o","r","e","i","g","n"," ","S","t","u","d","e","n","t">>, degree |-> <<"M","a","s","t","e","r","s">>, url |-> <<>>],
    [title |-> <<"G","a","t","e","s"," ","C","a","m","b","r","i","d","g","e"," ","S","c","h","o","l","a","r","s","h","i","p">>, url |-> <<"g","a","t","e","s",".","o","r","g">>],
    [title |-> <<"T","h","e"," ","G","a","t","e","s"," ","C","a","m","b","r","i","d","g","e"," ","S","c","h","o","l","a","r","s","h","i","p">>, url |-> <<"g","a","t","e","s",".","o","r","g","/","2">>,
     funding |-> <<"f","u","l","l"," ","c","o","s","t">>] }

InitDedup ==
    /\ pc = "start"
    /\ scholarships \in Lists({r \in DedupPool : _is_valid(r)}, MaxRecords)
    /\ given = scholarships
    /\ unique = <<>> /\ unique2 = <<>>
    /\ IdleClock /\ IdleMatch /\ IdleStandardize /\ IdleDeadline /\ IdleProcess
    /\ IdleFurther

SmartDeduplicate ==
    /\ pc = "start"
    /\ unique' \in _smart_deduplicate(scholarships)
    /\ pc' = "deduplicated"
    /\ UNCHANGED <<current_month, profile, scholarships, unique2, ranked,
                   record, std1, std2, deadline, deadline_out, processed, processed2, given>>
    /\ UNCHANGED further_vars

SmartDeduplicateAgain ==
    /\ pc = "deduplicated"
    /\ unique2' \in _smart_deduplicate(unique)
    /\ pc' = "deduplicated twice"
    /\ UNCHANGED <<current_month, profile, scholarships, unique, ranked,
                   record, std1, std2, deadline, deadline_out, processed, processed2, given>>
    /\ UNCHANGED further_vars

NextDedup == SmartDeduplicate \/ SmartDeduplicateAgain

SpecDedup == InitDedup /\ [][NextDedup]_vars

(* Properties of _smart_deduplicate *)

\* the FamilyKey (family id, sub-key) of a record; the family id of a
\* record that no family claims is empty
FamilyKey(r) ==
    LET family == _identify_family(r) IN <<family, _get_sub_key(r, family)>>

Classified(r) == _identify_family(r) # <<>>

\* the FamilyKeys of the records of a list, position by position
RECURSIVE KeyList(_)
KeyList(list) ==
    IF list = <<>> THEN <<>> ELSE <<FamilyKey(list[1])>> \o KeyList(Tail(list))

\* the FamilyKeys of the family-classified records among them
ClassifiedKeys(keys) ==
    {keys[i] : i \in {j \in 1..Len(keys) : keys[j][1] # <<>>}}

\* the records of a list that carry a key, in the order of the list
RECURSIVE GroupOf(_, _, _)
GroupOf(list, keys, key) ==
    IF list = <<>> THEN <<>>
    ELSE (IF keys[1] = key THEN <<list[1]>> ELSE <<>>)
             \o GroupOf(Tail(list), Tail(keys), key)

\* C2: the family-classified records returned by _smart_deduplicate are in
\* one-to-one correspondence with the distinct FamilyKeys of its input: no two
\* share a FamilyKey and every FamilyKey of the input is represented.
C2_OneRecordPerFamilyKey ==
    pc # "start" =>
        LET keys == KeyList(unique)
        IN  /\ \A i, j \in 1..Len(keys) :
                   (i # j /\ keys[i][1] # <<>>) => keys[i] # keys[j]
            /\ ClassifiedKeys(keys) = ClassifiedKeys(KeyList(given))

\* a merge happened while a DAAD graduate-school record and a DAAD
\* research-grant record both survived
C2_Witness ==
    /\ pc = "deduplicated"
    /\ Len(unique) < Len(given)
    /\ \E i, j \in 1..Len(unique) :
           /\ FamilyKey(unique[i]) = <<<<"d","a","a","d">>, <<"g","s","s","p">>>>
           /\ FamilyKey(unique[j]) = <<<<"d","a","a","d">>, <<"r","e","s","e","a","r","c","h">>>>

\* C3: deduplicating the deduplicated list again returns the same records in
\* the same order.
C3_DeduplicateIdempotent ==
    pc = "deduplicated twice" => unique2 = unique

\* the first pass merged a group, attached alternate_urls and dropped an
\* ungrouped duplicate
C3_Witness ==
    /\ pc = "deduplicated twice"
    /\ Len(unique) < Len(given)
    /\ \E i \in 1..Len(unique) : "alternate_urls" \in DOMAIN unique[i]
    /\ \E i \in 1..Len(unique) : ~Classified(unique[i])

\* the completeness score as the specification words it: the summed lengths
\* of the informative fields that are present, non-empty and no placeholder
InformativeLen(r, f) ==
    IF f \in DOMAIN r /\ r[f] # <<>> /\ r[f] \notin Placeholders THEN Len(r[f]) ELSE 0

Completeness(r) ==
    InformativeLen(r, "title") + InformativeLen(r, "country")
    + InformativeLen(r, "degree") + InformativeLen(r, "field")
    + InformativeLen(r, "duration") + InformativeLen(r, "funding")
    + InformativeLen(r, "eligibility") + InformativeLen(r, "documents")
    + InformativeLen(r, "deadline") + InformativeLen(r, "url")

\* the position of the earliest member of maximal completeness
MostComplete(group) ==
    CHOOSE b \in 1..Len(group) :
        /\ \A j \in 1..Len(group) : Completeness(group[j]) <= Completeness(group[b])
        /\ \A j \in 1..(b - 1) : Completeness(group[j]) < Completeness(group[b])

\* C4: for a group of two or more records sharing a FamilyKey the canonical
\* record has, on every original field, the values of the earliest member of
\* maximal completeness.
C4_MostCompleteMemberWins ==
    pc # "start" =>
        LET given_keys == KeyList(given)
            keys == KeyList(unique)
        IN  \A key \in ClassifiedKeys(given_keys) :
                LET group == GroupOf(given, given_keys, key)
                IN  Len(group) >= 2 =>
                        /\ \E i \in 1..Len(keys) : keys[i] = key
                        /\ \A i \in 1..Len(keys) :
                               keys[i] = key =>
                                   Restrict(unique[i], DOMAIN unique[i] \ {"alternate_urls"})
                                       = group[MostComplete(group)]

\* a group of three in which two members tie for the maximum and the first
\* member is not among them
C4_Witness ==
    /\ pc = "deduplicated"
    /\ \E key \in ClassifiedKeys(KeyList(given)) :
           LET group == GroupOf(given, KeyList(given), key)
           IN  /\ Len(group) = 3
               /\ MostComplete(group) = 2
               /\ Completeness(group[3]) = Completeness(group[2])
               /\ group[3] # group[2]

\* the duplicate-free list of the non-empty URLs of the members other than
\* member b, in the order first seen
RECURSIVE OtherUrls(_, _, _, _)
OtherUrls(group, b, i, acc) ==
    IF i > Len(group) THEN acc
    ELSE LET url == Get(group[i], "url", <<>>)
         IN  IF i # b /\ url # <<>> /\ \A k \in 1..Len(acc) : acc[k] # url
             THEN OtherUrls(group, b, i + 1, Append(acc, url))
             ELSE OtherUrls(group, b, i + 1, acc)

\* C5: the canonical record of a merged group carries as alternate_urls the
\* duplicate-free list of the non-empty URLs of the other members in
\* first-seen order, attached only when the group has more than one distinct
\* non-empty URL; a group of one passes through unchanged.
C5_AlternateUrlsOfOthersFirstSeen ==
    pc # "start" =>
        LET given_keys == KeyList(given)
            keys == KeyList(unique)
        IN  \A i \in 1..Len(keys) :
                keys[i][1] # <<>> =>
                    LET group == GroupOf(given, given_keys, keys[i])
                    IN  IF Len(group) = 1 THEN unique[i] = group[1]
                        ELSE IF Cardinality(GroupUrls(group)) > 1
                        THEN /\ "alternate_urls" \in DOMAIN unique[i]
                             /\ unique[i].alternate_urls
                                    = OtherUrls(group, MostComplete(group), 1, <<>>)
                        ELSE "alternate_urls" \notin DOMAIN unique[i]

----------------------------------------------------------------------------
(* match_and_rank on a list of records and a profile *)

MaxRanked == 3

ScoringPool == {
    [title |-> <<"A">>, country |-> <<"G","e","r","m","a","n","y">>, degree |-> <<"M","a","s","t","e","r","'","s">>,
     field |-> <<"C","o","m","p","u","t","e","r"," ","S","c","i","e","n","c","e">>, funding |-> <<"F","u","l","l","y"," ","f","u","n","d","e","d">>],
    [title |-> <<"B">>, country |-> <<"G","e","r","m","a","n","y">>, degree |-> <<"M","a","s","t","e","r","'","s">>,
     field |-> <<"C","o","m","p","u","t","e","r"," ","S","c","i","e","n","c","e">>, funding |-> <<"F","u","l","l","y"," ","f","u","n","d","e","d">>],
    [title |-> <<"C">>],
    [title |-> <<"D">>, country |-> <<"V","a","r","i","o","u","s">>, degree |-> <<"A","l","l"," ","l","e","v","e","l","s">>,
     field |-> <<"D","a","t","a"," ","a","n","d"," ","s","o","f","t","w","a","r","e">>, funding |-> <<"P","a","r","t","i","a","l"," ","t","u","i","t","i","o","n">>],
    [title |-> <<"E">>, country |-> <<"U","n","i","t","e","d"," ","K","i","n","g","d","o","m">>, degree |-> <<"P","o","s","t","g","r","a","d","u","a","t","e">>,
     field |-> <<"A","l","l">>, funding |-> <<>>] }

\* cgpa values in hundredths, among them numbers outside 0.0 to 4.0
CgpaValues == {-1000, 250, 300, 350}

FullProfiles ==
    {[country |-> c, degree_level |-> <<"M","a","s","t","e","r","'","s">>,
      field_of_study |-> <<"C","o","m","p","u","t","e","r"," ","S","c","i","e","n","c","e">>, cgpa |-> g] :
        c \in {AnyCountry, <<"G","e","r","m","a","n","y">>}, g \in CgpaValues}

ProfileKeySets ==
    {{}, {"country", "cgpa"}, {"country", "degree_level", "field_of_study", "cgpa"}}

Profiles == {Restrict(p, K) : p \in FullProfiles, K \in ProfileKeySets}

InitMatch ==
    /\ pc = "start"
    /\ profile \in Profiles
    /\ scholarships \in Lists(ScoringPool, MaxRanked)
    /\ given = scholarships
    /\ ranked = <<>>
    /\ IdleClock /\ IdleDedup /\ IdleStandardize /\ IdleDeadline /\ IdleProcess
    /\ IdleFurther

\* match_and_rank writes match_score into the dicts of the list it was given
MatchAndRank ==
    /\ pc = "start"
    /\ ranked' = match_and_rank(scholarships, profile)
    /\ scholarships' = Scored(scholarships, profile)
    /\ pc' = "ranked"
    /\ UNCHANGED <<current_month, profile, unique, unique2,
                   record, std1, std2, deadline, deadline_out, processed, processed2, given>>
    /\ UNCHANGED further_vars

NextMatch == MatchAndRank

SpecMatch == InitMatch /\ [][NextMatch]_vars

\* C1: every match_score assigned by match_and_rank lies in 0..100, for
\* every profile and record, whichever fields are present.
C1_ScoreWithinBounds ==
    pc = "ranked" =>
        /\ Len(ranked) = Len(given)
        /\ \A i \in 1..Len(ranked) :
               /\ "match_score" \in DOMAIN ranked[i]
               /\ 0 <= ranked[i].match_score
               /\ ranked[i].match_score <= MaxScore

\* a ranking that holds a record of score 100 and a record without any
\* scored field, under a profile whose cgpa is negative or at least 3.5
C1_Witness ==
    /\ pc = "ranked"
    /\ \E i \in 1..Len(ranked) : ranked[i].match_score = MaxScore
    /\ \E i \in 1..Len(ranked) : DOMAIN ranked[i] = {"title", "match_score"}
    /\ "cgpa" \in DOMAIN profile

\* C7: match_and_rank returns exactly the records it was given, by
\* non-increasing match_score, records of equal score in their input order.
C7_RankedStablePermutation ==
    pc = "ranked" =>
        \E q \in Orderings(1..Len(given)) :
            /\ \A k \in 1..Len(given) :
                   /\ "match_score" \in DOMAIN ranked[k]
                   /\ ranked[k] = Put(given[q[k]], "match_score", ranked[k].match_score)
            /\ \A k \in 1..(Len(given) - 1) :
                   ranked[k].match_score >= ranked[k + 1].match_score
            /\ \A k, l \in 1..Len(given) :
                   (k < l /\ ranked[k].match_score = ranked[l].match_score) => q[k] < q[l]
            /\ Len(ranked) = Len(given)

\* three records are ranked, two different ones tie and a lower-scored
\* record was given before them
C7_Witness ==
    /\ pc = "ranked"
    /\ Len(ranked) = 3
    /\ ranked[1].match_score = ranked[2].match_score
    /\ ranked[1] # ranked[2]
    /\ ranked[3].match_score < ranked[2].match_score
    /\ Restrict(ranked[3], DOMAIN given[1]) = given[1]

----------------------------------------------------------------------------
(* _standardize on one record, called twice *)

\* the strings made of at most n of the tokens
RECURSIVE Concats(_, _)
Concats(tokens, n) ==
    IF n = 0 THEN {<<>>}
    ELSE Concats(tokens, n - 1) \cup {s \o t : s \in Concats(tokens, n - 1), t \in tokens}

MaxTextTokens == 3

TextTokens == {<<"a">>, <<" ">>, <<"&","n","b","s","p",";">>, <<"&","a","m","p",";">>, <<"n","b","s","p",";">>}

FullRecords ==
    {[title |-> t, degree |-> d, country |-> <<" ","U","K"," ">>, url |-> u] :
        t \in Concats(TextTokens, MaxTextTokens),
        d \in {<<"P","o","s","t","d","o","c">>, <<"P","h","D">>, <<"m","a","s","t","e","r"," ","o","f"," ","s","c","i","e","n","c","e">>, <<"D","i","p","l","o","m","a">>},
        u \in {<<"d","a","a","d",".","d","e">>, <<"h","t","t","p","s",":","/","/","x",".","o","r","g">>, <<>>}}

RecordKeySets == {{"title"}, {"title", "degree", "country", "url"}}

InitStandardize ==
    /\ pc = "start"
    /\ record \in {Restrict(r, K) : r \in FullRecords, K \in RecordKeySets}
    /\ std1 = EmptyDict /\ std2 = EmptyDict
    /\ IdleClock /\ IdleMatch /\ IdleDedup /\ IdleDeadline /\ IdleProcess /\ IdleList
    /\ IdleFurther

Standardize ==
    /\ pc = "start"
    /\ std1' = _standardize(record)
    /\ pc' = "standardized"
    /\ UNCHANGED <<current_month, profile, scholarships, unique, unique2, ranked,
                   record, std2, deadline, deadline_out, processed, processed2, given>>
    /\ UNCHANGED further_vars

StandardizeAgain ==
    /\ pc = "standardized"
    /\ std2' = _standardize(std1)
    /\ pc' = "standardized twice"
    /\ UNCHANGED <<current_month, profile, scholarships, unique, unique2, ranked,
                   record, std1, deadline, deadline_out, processed, processed2, given>>
    /\ UNCHANGED further_vars

NextStandardize == Standardize \/ StandardizeAgain

SpecStandardize == InitStandardize /\ [][NextStandardize]_vars

\* C6: standardizing a standardized record changes no field.
C6_StandardizeIdempotent ==
    pc = "standardized twice" => std2 = std1

----------------------------------------------------------------------------
(* _normalize_deadline on one deadline string in one calendar month *)

MaxDeadlineTokens == 3

DeadlineTokens == {<<"M","a","r","c","h">>, <<"d","e","c">>, <<" ">>, <<"2","0","2","4">>, <<"2","0","2","6">>, <<"1","9","9","9">>}

Months == 1..12

InitDeadline ==
    /\ pc = "start"
    /\ current_month \in Months
    /\ deadline \in Concats(DeadlineTokens, MaxDeadlineTokens) \cup SkipDeadlines
    /\ deadline_out = <<>>
    /\ IdleMatch /\ IdleDedup /\ IdleStandardize /\ IdleProcess /\ IdleList
    /\ IdleFurther

NormalizeDeadline ==
    /\ pc = "start"
    /\ deadline_out' = _normalize_deadline(deadline, current_month)
    /\ pc' = "normalized"
    /\ UNCHANGED <<current_month, profile, scholarships, unique, unique2, ranked,
                   record, std1, std2, deadline, processed, processed2, given>>
    /\ UNCHANGED further_vars

NextDeadline == NormalizeDeadline

SpecDeadline == InitDeadline /\ [][NextDeadline]_vars

Dated(dl) == dl # <<>> /\ dl \notin SkipDeadlines

\* four digits stand at position i of s
FourDigitsAt(s, i) ==
    /\ i >= 1 /\ i + 3 <= Len(s)
    /\ \A k \in i..(i + 3) : IsDigit(s[k])

\* the number they spell
FourDigitValue(s, i) ==
    1000 * DigitValue(s[i]) + 100 * DigitValue(s[i + 1])
        + 10 * DigitValue(s[i + 2]) + DigitValue(s[i + 3])

\* a year token: four digits with no digit before or after them
YearTokenAt(s, i) ==
    /\ FourDigitsAt(s, i)
    /\ (i > 1 => ~IsDigit(s[i - 1]))
    /\ (i + 4 <= Len(s) => ~IsDigit(s[i + 4]))

\* a year of this century: the digits 2, 0 and two more
CenturyYearAt(s, i) == FourDigitsAt(s, i) /\ s[i] = "2" /\ s[i + 1] = "0"

FirstAt(P(_, _), s, i) == P(s, i) /\ \A j \in 1..(i - 1) : ~P(s, j)

\* C8 as stated: when the deadline holds a 4-digit year token nothing is
\* appended; the first year token is replaced by 2025 when it is before
\* 2025, and the string is unchanged otherwise.
C8_AnyYearTokenReplacedOrKept ==
    (pc = "normalized" /\ Dated(deadline)) =>
        \A i \in 1..Len(deadline) :
            FirstAt(YearTokenAt, deadline, i) =>
                /\ Len(deadline_out) = Len(deadline)
                /\ IF FourDigitValue(deadline, i) < CutoffYear
                   THEN SubSeq(deadline_out, i, i + 3) = IntToStr(CutoffYear)
                   ELSE deadline_out = deadline

\* C8 as amended: when the deadline holds four digits of the form 20dd, the
\* leftmost is the year; if it is before 2025 every occurrence of those four
\* digits is replaced by 2025 and nothing else changes, otherwise the string
\* is unchanged; nothing is appended.
C8_CenturyYearReplacedOrKept ==
    (pc = "normalized" /\ Dated(deadline)) =>
        \A i \in 1..Len(deadline) :
            FirstAt(CenturyYearAt, deadline, i) =>
                /\ Len(deadline_out) = Len(deadline)
                /\ IF FourDigitValue(deadline, i) < CutoffYear
                   THEN /\ SubSeq(deadline_out, i, i + 3) = IntToStr(CutoffYear)
                        /\ \A p \in 1..Len(deadline) :
                               deadline_out[p] # deadline[p] =>
                                   \E j \in (p - 3)..p :
                                       /\ FourDigitsAt(deadline, j)
                                       /\ SubSeq(deadline, j, j + 3) = SubSeq(deadline, i, i + 3)
                   ELSE deadline_out = deadline

\* 'March 2024' became 'March 2025'
C8_Witness ==
    /\ pc = "normalized"
    /\ deadline = <<"M","a","r","c","h"," ","2","0","2","4">>
    /\ deadline_out = <<"M","a","r","c","h"," ","2","0","2","5">>

\* the month indices whose name or abbreviation occurs in the deadline
MonthsIn(dl) ==
    {month_names[k][2] : k \in {j \in 1..Len(month_names) : Contains(Lower(dl), month_names[j][1])}}

----------------------------------------------------------------------------
(* process_scholarships on a list of raw records in one calendar month *)

MaxRaw == 2

RawPool == {
    [title |-> <<"D","A","A","D"," ","R","e","s","e","a","r","c","h"," ","G","r","a","n","t">>, deadline |-> <<"M","a","r","c","h"," ","2","0","2","4">>, url |-> <<"d","a","a","d",".","d","e">>],
    [title |-> <<"R","h","o","d","e","s"," ","S","c","h","o","l","a","r","s","h","i","p">>, deadline |-> <<"3","1"," ","d","e","c">>],
    [title |-> <<"G","a","t","e","s"," ","C","a","m","b","r","i","d","g","e"," ","S","c","h","o","l","a","r","s","h","i","p">>, country |-> <<"u","k">>],
    [title |-> <<"T","h","e"," ","G","a","t","e","s"," ","C","a","m","b","r","i","d","g","e"," ","S","c","h","o","l","a","r","s","h","i","p">>, deadline |-> <<"s","o","o","n">>, funding |-> <<>>],
    [title |-> <<"F","u","l","b","r","i","g","h","t"," ","P","r","o","g","r","a","m">>, deadline |-> <<"R","o","l","l","i","n","g">>, degree |-> <<"P","o","s","t","d","o","c">>],
    [title |-> <<"C","h","e","v","e","n","i","n","g"," ","A","w","a","r","d","s">>, deadline |-> <<"J","u","n","e"," ","1","9","9","9">>],
    [title |-> <<"H","o","m","e">>, deadline |-> <<"1"," ","M","a","y">>],
    [title |-> <<"&","n","b","s","p",";"," ","&","n","b","s","p",";">>, url |-> <<"x",".","o","r","g">>] }

InitProcess ==
    /\ pc = "start"
    /\ current_month \in Months
    /\ scholarships \in Lists(RawPool, MaxRaw)
    /\ given = scholarships
    /\ IdleProcess
    /\ IdleMatch /\ IdleDedup /\ IdleStandardize /\ IdleDeadline
    /\ IdleFurther

ProcessScholarships ==
    /\ pc = "start"
    /\ processed' \in process_scholarships(scholarships, current_month)
    /\ pc' = "processed"
    /\ UNCHANGED <<current_month, profile, scholarships, unique, unique2, ranked,
                   record, std1, std2, deadline, deadline_out, processed2, given>>
    /\ UNCHANGED further_vars

NextProcess == ProcessScholarships

SpecProcess == InitProcess /\ [][NextProcess]_vars

\* a deadline is year-qualified: empty, a skip-list literal, or holding four
\* digits that spell a year not before the cutoff
YearQualified(dl) ==
    \/ dl = <<>>
    \/ dl \in SkipDeadlines
    \/ \E i \in 1..Len(dl) : FourDigitsAt(dl, i) /\ FourDigitValue(dl, i) >= CutoffYear

\* C10: after process_scholarships every output record has a year-qualified
\* deadline.
C10_DeadlinesYearQualified ==
    pc = "processed" =>
        \A i \in 1..Len(processed) :
            /\ "deadline" \in DOMAIN processed[i]
            /\ YearQualified(processed[i].deadline)

\* the output holds a deadline whose year was replaced and one that had no
\* deadline or no year when it came in
C10_Witness ==
    /\ pc = "processed"
    /\ \E i \in 1..Len(processed) : processed[i].deadline = <<"M","a","r","c","h"," ","2","0","2","5">>
    /\ \E i \in 1..Len(given) :
           /\ _is_valid(given[i])
           /\ ~YearQualified(Get(given[i], "deadline", <<"n","o","n","e">>))

----------------------------------------------------------------------------
(* _smart_deduplicate on the same validated records in two arrival orders *)

MaxArrivals == 3

ArrivalPool == {
    [title |-> <<"E","r","a","s","m","u","s"," ","A","I"," ","l","a","b">>, url |-> <<"e",".","e","u","/","a","i">>],
    [title |-> <<"E","r","a","s","m","u","s"," ","M","L"," ","l","a","b">>, url |-> <<"e",".","e","u","/","m","l">>],
    [title |-> <<"G","a","t","e","s"," ","A","w","a","r","d","s">>, url |-> <<"g",".","o","r","g">>],
    [title |-> <<"T","h","e"," ","G","a","t","e","s"," ","A","w","a","r","d","s">>, url |-> <<"g",".","o","r","g","/","2">>, funding |-> <<"f","u","l","l">>],
    [title |-> <<"R","h","o","d","e","s"," ","T","r","u","s","t">>, degree |-> <<"M","S","c">>] }

\* the lists holding the elements of list in some order
ArrivalOrders(list) ==
    {[i \in 1..Len(list) |-> list[q[i]]] : q \in Orderings(1..Len(list))}

InitReorder ==
    /\ pc = "start"
    /\ scholarships \in Lists({r \in ArrivalPool : _is_valid(r)}, MaxArrivals)
    /\ given = scholarships
    /\ reordered \in ArrivalOrders(scholarships)
    /\ unique = <<>> /\ unique2 = <<>> /\ unique_r = <<>>
    /\ IdleClock /\ IdleMatch /\ IdleStandardize /\ IdleDeadline /\ IdleProcess
    /\ IdleScrape /\ IdleClassify /\ IdleFilter

SmartDeduplicateReordered ==
    /\ pc = "deduplicated"
    /\ unique_r' \in _smart_deduplicate(reordered)
    /\ pc' = "deduplicated both"
    /\ UNCHANGED <<current_month, profile, scholarships, unique, unique2, ranked,
                   record, std1, std2, deadline, deadline_out, processed, processed2, given>>
    /\ UNCHANGED <<reordered, scrape_vars, classify_vars, filter_vars>>

NextReorder == SmartDeduplicate \/ SmartDeduplicateReordered

SpecReorder == InitReorder /\ [][NextReorder]_vars

\* the title signatures of the records of a list that no family claims
Signatures(list) ==
    {_normalize_title(Get(list[i], "title", <<>>)) :
        i \in {j \in 1..Len(list) : ~Classified(list[j])}}

\* C13: for two orderings of the same validated records _smart_deduplicate
\* returns the same number of records, covering the same FamilyKeys and, for
\* the records of no family, the same title signatures.
C13_ArrivalOrderIndependent ==
    pc = "deduplicated both" =>
        /\ Len(unique_r) = Len(unique)
        /\ ClassifiedKeys(KeyList(unique_r)) = ClassifiedKeys(KeyList(unique))
        /\ Signatures(unique_r) = Signatures(unique)

\* the two orders gave different canonical records for a family group whose
\* members tie, and an ungrouped duplicate was dropped in both
C13_Witness ==
    /\ pc = "deduplicated both"
    /\ reordered # scholarships
    /\ \E i \in 1..Len(unique) : \A j \in 1..Len(unique_r) :
           Get(unique_r[j], "title", <<>>) # Get(unique[i], "title", <<>>)
    /\ Len(unique) < Len(given)

----------------------------------------------------------------------------
(* ai_engine/orchestrator.py: _parallel_scrape.  One task per scraper is     *)
(* submitted to a pool of max_workers threads; the loop over as_completed   *)
(* takes each future once it is done, in the order of completion.           *)

MaxSources == 3

MaxWorkers == 5

\* what scraper s delivers when its scrape succeeds: a record every scraper
\* finds, and one of its own for every other scraper
ScrapeResult(s) ==
    IF s % 2 = 1
    THEN << [title |-> <<"S","h","a","r","e","d"," ","A","w","a","r","d">>], [title |-> <<"A","w","a","r","d"," ">> \o IntToStr(s)] >>
    ELSE << [title |-> <<"S","h","a","r","e","d"," ","A","w","a","r","d">>] >>

\* the tasks that hold a worker thread
Running == {s \in DOMAIN task : task[s] \in {"running", "hung"}}

Done(s) == task[s] \in {"returned", "raised"}

InitScrape ==
    /\ pc = "scraping"
    /\ \E n \in 0..MaxSources :
           /\ task = [s \in 1..n |-> "queued"]
           /\ result = [s \in 1..n |-> <<>>]
           /\ runs = [s \in 1..n |-> 0]
    /\ yielded = <<>>
    /\ all_scholarships = <<>>
    /\ completed = 0
    /\ IdlePipeline /\ IdleReorder /\ IdleClassify /\ IdleFilter

\* a worker thread takes the task that has waited longest
TaskStart(s) ==
    /\ pc = "scraping"
    /\ task[s] = "queued"
    /\ \A t \in 1..(s - 1) : task[t] # "queued"
    /\ Cardinality(Running) < MaxWorkers
    /\ task' = [task EXCEPT ![s] = "running"]
    /\ runs' = [runs EXCEPT ![s] = @ + 1]
    /\ UNCHANGED <<pc, pipeline_vars, reorder_vars, classify_vars, filter_vars,
                   result, yielded, all_scholarships, completed>>

\* get_scholarships returns what it scraped
TaskReturns(s) ==
    /\ pc = "scraping"
    /\ task[s] = "running"
    /\ task' = [task EXCEPT ![s] = "returned"]
    /\ result' = [result EXCEPT ![s] = ScrapeResult(s)]
    /\ UNCHANGED <<pc, pipeline_vars, reorder_vars, classify_vars, filter_vars,
                   yielded, all_scholarships, completed, runs>>

\* get_scholarships catches an exception of its scrape and returns []
TaskReturnsNothing(s) ==
    /\ pc = "scraping"
    /\ task[s] = "running"
    /\ task' = [task EXCEPT ![s] = "returned"]
    /\ result' = [result EXCEPT ![s] = <<>>]
    /\ UNCHANGED <<pc, pipeline_vars, reorder_vars, classify_vars, filter_vars,
                   yielded, all_scholarships, completed, runs>>

\* an exception leaves the task: the future holds it
TaskRaises(s) ==
    /\ pc = "scraping"
    /\ task[s] = "running"
    /\ task' = [task EXCEPT ![s] = "raised"]
    /\ UNCHANGED <<pc, pipeline_vars, reorder_vars, classify_vars, filter_vars,
                   result, yielded, all_scholarships, completed, runs>>

\* the list thrown away when a future raises
ExtendWith_reset_on_failure(all, status, scholarships_of_future) ==
    IF status = "raised" THEN <<>> ELSE all \o scholarships_of_future

\* try: all_scholarships.extend(future.result(timeout=40)); except Exception: print
ExtendWith(all, status, scholarships_of_future) ==
    IF status = "raised" THEN all ELSE all \o scholarships_of_future

\* one turn of the loop over as_completed: a future that is done and was not
\* yielded before; result(timeout=40) on a future that is done never waits
Collect(s) ==
    /\ pc = "scraping"
    /\ Done(s)
    /\ \A k \in 1..Len(yielded) : yielded[k] # s
    /\ yielded' = Append(yielded, s)
    /\ all_scholarships' = ExtendWith(all_scholarships, task[s], result[s])
    /\ completed' = IF task[s] = "raised" THEN completed ELSE completed + 1
    /\ UNCHANGED <<pc, pipeline_vars, reorder_vars, classify_vars, filter_vars, task, result, runs>>

\* every future was yielded: the loop ends and all_scholarships is returned
ReturnScraped ==
    /\ pc = "scraping"
    /\ Len(yielded) = Cardinality(DOMAIN task)
    /\ pc' = "scraped"
    /\ UNCHANGED <<pipeline_vars, reorder_vars, classify_vars, filter_vars, scrape_vars>>

NextScrape ==
    \/ \E s \in DOMAIN task :
           \/ TaskStart(s)
           \/ TaskReturns(s)
           \/ TaskReturnsNothing(s)
           \/ TaskRaises(s)
           \/ Collect(s)
    \/ ReturnScraped

SpecScrape == InitScrape /\ [][NextScrape]_vars

\* how often a value occurs in a list
RECURSIVE Count(_, _)
Count(list, x) ==
    IF list = <<>> THEN 0
    ELSE (IF list[1] = x THEN 1 ELSE 0) + Count(Tail(list), x)

\* how often a record was returned by the scrapers whose task returned
RECURSIVE Delivered(_, _)
Delivered(sources, x) ==
    IF sources = {} THEN 0
    ELSE LET s == CHOOSE t \in sources : TRUE
         IN  (IF task[s] = "returned" THEN Count(result[s], x) ELSE 0)
                 + Delivered(sources \ {s}, x)

\* C14: when _parallel_scrape returns, whatever the order of completion, the
\* aggregated list holds each record as often as the tasks that returned
\* delivered it; a task that raised adds nothing, and no task ran twice.
C14_FanInCollectsEverySuccess ==
    /\ \A s \in DOMAIN runs : runs[s] <= 1
    /\ pc = "scraped" =>
           /\ \A s \in DOMAIN task :
                  \A k \in 1..Len(result[s]) :
                      Count(all_scholarships, result[s][k])
                          = Delivered(DOMAIN task, result[s][k])
           /\ \A k \in 1..Len(all_scholarships) :
                  Count(all_scholarships, all_scholarships[k])
                      = Delivered(DOMAIN task, all_scholarships[k])
           /\ \A s \in DOMAIN task : task[s] = "raised" => result[s] = <<>>
           /\ \A s \in DOMAIN runs : runs[s] = 1

\* a task raised and was collected between two tasks that returned records,
\* and the futures were not yielded in the order of submission
C14_Witness ==
    /\ pc = "scraped"
    /\ Len(yielded) = 3
    /\ task[yielded[2]] = "raised"
    /\ result[yielded[1]] # <<>> /\ result[yielded[3]] # <<>>
    /\ yielded[1] > yielded[3]
    /\ Len(all_scholarships) = 3

----------------------------------------------------------------------------
(* _identify_family, _get_sub_key and the component scores on one record,  *)
(* with any of the record's and the profile's fields absent                *)

ClassifyPool == {
    [title |-> <<"D","A","A","D"," ","E","P","O","S"," ","G","r","a","d","u","a","t","e"," ","S","c","h","o","o","l">>, url |-> <<"x",".","o","r","g">>, degree |-> <<"P","h","D">>],
    [title |-> <<"D","A","A","D"," ","d","e","v","e","l","o","p","m","e","n","t","-","r","e","l","a","t","e","d"," ","c","o","u","r","s","e","s">>, degree |-> <<"M","a","s","t","e","r","s">>],
    [title |-> <<"D","A","A","D"," ","S","t","u","d","y"," ","S","c","h","o","l","a","r","s","h","i","p">>],
    [title |-> <<"D","A","A","D"," ","a","l","l"," ","d","i","s","c","i","p","l","i","n","e","s"," ","r","e","s","e","a","r","c","h"," ","g","r","a","n","t">>],
    [title |-> <<"D","A","A","D"," ","R","e","s","e","a","r","c","h"," ","G","r","a","n","t"," ","S","T","I","B","E","T">>],
    [title |-> <<"D","A","A","D"," ","S","T","I","B","E","T">>],
    [title |-> <<"D","A","A","D"," ","A","w","a","r","d">>, degree |-> <<"P","h","D">>],
    [title |-> <<"H","E","C"," ","O","v","e","r","s","e","a","s"," ","P","h","D">>, degree |-> <<"P","h","D">>],
    [title |-> <<"H","E","C","-","D","A","A","D"," ","P","h","D">>],
    [title |-> <<"E","r","a","s","m","u","s"," ","M","u","n","d","u","s">>, degree |-> <<"M","a","s","t","e","r","s">>, country |-> <<"V","a","r","i","o","u","s">>,
     field |-> <<"A","l","l">>],
    [title |-> <<"F","u","l","b","r","i","g","h","t"," ","A","w","a","r","d">>, url |-> <<"D","A","A","D",".","d","e","/","f">>, degree |-> <<"M","a","s","t","e","r","s">>,
     country |-> <<"G","e","r","m","a","n","y">>, field |-> <<"D","a","t","a"," ","s","c","i","e","n","c","e">>, funding |-> <<"F","u","l","l">>],
    [title |-> <<"E","P","O","S"," ","S","c","h","o","l","a","r","s","h","i","p">>, degree |-> <<"M","S","c">>, funding |-> <<"P","a","r","t","i","a","l">>],
    [title |-> <<"R","h","o","d","e","s"," ","T","r","u","s","t">>, url |-> <<"x",".","o","r","g">>, degree |-> <<>>],
    [title |-> <<"S","t","u","d","y"," ","a","t"," ","H","E","C">>, url |-> <<"O","v","e","r","s","e","a","s",".","p","k">>],
    [title |-> <<"G","r","a","n","t"," ","d","a">>, url |-> <<"a","d",".","o","r","g">>] }

\* the records of the pool with any of their fields absent
ClassifyRecords == {Restrict(r, K) : r \in ClassifyPool, K \in SUBSET {
    "title", "url", "degree", "country", "field", "funding"}}

\* a profile with any of its fields absent
ClassifyProfiles ==
    {Restrict([country |-> <<"G","e","r","m","a","n","y">>, degree_level |-> <<"M","a","s","t","e","r","'","s">>,
               field_of_study |-> <<"C","o","m","p","u","t","e","r"," ","S","c","i","e","n","c","e">>, cgpa |-> 350], K) :
        K \in SUBSET {"country", "degree_level", "field_of_study", "cgpa"}}

InitClassify ==
    /\ pc = "start"
    /\ record \in ClassifyRecords
    /\ IdleClassify
    /\ std1 = EmptyDict /\ std2 = EmptyDict
    /\ IdleClock /\ IdleMatch /\ IdleDedup /\ IdleDeadline /\ IdleProcess /\ IdleList
    /\ IdleReorder /\ IdleScrape /\ IdleFilter

IdentifyFamily ==
    /\ pc = "start"
    /\ family_key' = _identify_family(record)
    /\ pc' = "identified"
    /\ UNCHANGED <<pipeline_vars, reorder_vars, scrape_vars, filter_vars, sub_key, components,
                   tried, reached>>

\* _smart_deduplicate asks for the sub-key of a record that has a family
GetSubKey ==
    /\ pc = "identified"
    /\ family_key # <<>>
    /\ sub_key' = _get_sub_key(record, family_key)
    /\ pc' = "keyed"
    /\ UNCHANGED <<pipeline_vars, reorder_vars, scrape_vars, filter_vars, family_key, components,
                   tried, reached>>

\* the five components of _calculate_match_score and their capped sum
CalculateMatchScore ==
    /\ pc = "start"
    /\ \E prof \in ClassifyProfiles :
           /\ profile' = prof
           /\ components' =
                  [country |-> _score_country(record, prof),
                   degree  |-> _score_degree(record, prof),
                   field   |-> _score_field(record, prof),
                   cgpa    |-> _score_cgpa(record, prof),
                   funding |-> _score_funding(record),
                   total   |-> _calculate_match_score(record, prof)]
    /\ pc' = "scored"
    /\ UNCHANGED <<current_month, scholarships, unique, unique2, ranked,
                   record, std1, std2, deadline, deadline_out, processed, processed2, given>>
    /\ UNCHANGED <<reorder_vars, scrape_vars, filter_vars, family_key, sub_key,
                   tried, reached>>

NextClassify == IdentifyFamily \/ GetSubKey \/ CalculateMatchScore

SpecClassify == InitClassify /\ [][NextClassify]_vars

FamilyIds == {SCHOLARSHIP_FAMILIES[i][1] : i \in 1..Len(SCHOLARSHIP_FAMILIES)}

\* the text the families are looked up in: the title and the URL in lower
\* case, a blank between them
Combined(r) ==
    Lower(IF "title" \in DOMAIN r THEN r.title ELSE <<>>) \o <<" ">>
        \o Lower(IF "url" \in DOMAIN r THEN r.url ELSE <<>>)

\* the positions in the table of the families a keyword of which occurs in text
FamiliesIn(text) ==
    {i \in 1..Len(SCHOLARSHIP_FAMILIES) :
        \E k \in 1..Len(SCHOLARSHIP_FAMILIES[i][2]) :
            Contains(text, SCHOLARSHIP_FAMILIES[i][2][k])}

DaadRules == <<
    <<{<<"g","s","s","p">>, <<"g","r","a","d","u","a","t","e"," ","s","c","h","o","o","l">>}, <<"g","s","s","p">>>>,
    <<{<<"e","p","o","s">>, <<"d","e","v","e","l","o","p","m","e","n","t","-","r","e","l","a","t","e","d">>}, <<"e","p","o","s">>>>,
    <<{<<"s","t","u","d","y"," ","s","c","h","o","l","a","r","s","h","i","p">>, <<"a","l","l"," ","d","i","s","c","i","p","l","i","n","e","s">>}, <<"s","t","u","d","y">>>>,
    <<{<<"r","e","s","e","a","r","c","h"," ","g","r","a","n","t">>}, <<"r","e","s","e","a","r","c","h">>>>,
    <<{<<"s","t","i","b","e","t">>}, <<"s","t","i","b","e","t">>>> >>

\* the rules a lower-cased title matches
DaadRulesIn(title) ==
    {i \in 1..Len(DaadRules) : \E w \in DaadRules[i][1] : Contains(title, w)}

\* C19: the sub-key is, for 'daad', the token of the first title rule that
\* matches and 'general' when none does; for a family whose id starts with
\* 'hec_' the family id; for 'erasmus' always 'main'; for every other family
\* the lower-cased degree, or 'general' when the degree is absent or empty.
C19_SubKeyRules ==
    pc = "keyed" =>
        LET title == Lower(IF "title" \in DOMAIN record THEN record.title ELSE <<>>)
            rules == DaadRulesIn(title)
        IN  /\ family_key = <<"d","a","a","d">> =>
                   /\ rules = {} => sub_key = <<"g","e","n","e","r","a","l">>
                   /\ \A i \in rules :
                          (\A j \in rules : i <= j) => sub_key = DaadRules[i][2]
            /\ (Len(family_key) >= 4 /\ SubSeq(family_key, 1, 4) = <<"h","e","c","_">>)
                   => sub_key = family_key
            /\ family_key = <<"e","r","a","s","m","u","s">> => sub_key = <<"m","a","i","n">>
            /\ (/\ family_key # <<"d","a","a","d">>
                /\ family_key # <<"e","r","a","s","m","u","s">>
                /\ ~(Len(family_key) >= 4 /\ SubSeq(family_key, 1, 4) = <<"h","e","c","_">>)) =>
                   IF "degree" \in DOMAIN record /\ record.degree # <<>>
                   THEN sub_key = Lower(record.degree)
                   ELSE sub_key = <<"g","e","n","e","r","a","l">>

\* a 'daad' title that matches the rule of 'epos' and the rule of 'gssp'
C19_Witness ==
    /\ pc = "keyed"
    /\ family_key = <<"d","a","a","d">>
    /\ DaadRulesIn(Lower(record.title)) = {1, 2}
    /\ sub_key = <<"g","s","s","p">>

\* C15: with any subset of the fields absent the classification, the sub-key
\* and every component score are defined, and an absent field selects the
\* neutral branch: country 15 without a profile country, degree 10 when
\* either degree is absent, field 10 without a profile field, cgpa 5 without
\* a cgpa, funding 3 without a funding text.
C15_AbsentFieldsSelectNeutralBranch ==
    /\ pc = "identified" => family_key \in FamilyIds \cup {<<>>}
    /\ pc = "keyed" => sub_key # <<>>
    /\ pc = "scored" =>
           /\ components.country \in {5, 15, 20, 30}
           /\ components.degree \in {5, 10, 12, 20, 25}
           /\ components.field \in {5, 10, 15, 20}
           /\ components.cgpa \in {5, 8, 12, 15}
           /\ components.funding \in {3, 6, 10}
           /\ components.total = components.country + components.degree
                  + components.field + components.cgpa + components.funding
           /\ "country" \notin DOMAIN profile => components.country = 15
           /\ ("degree_level" \notin DOMAIN profile \/ "degree" \notin DOMAIN record)
                  => components.degree = 10
           /\ "field_of_study" \notin DOMAIN profile => components.field = 10
           /\ "cgpa" \notin DOMAIN profile => components.cgpa = 5
           /\ "funding" \notin DOMAIN record => components.funding = 3

\* a record that holds nothing but a country, scored under the empty profile
C15_Witness ==
    /\ pc = "scored"
    /\ profile = EmptyDict
    /\ DOMAIN record = {"country"}
    /\ components.total = 43

----------------------------------------------------------------------------
(* ai_engine/orchestrator.py: filter_scholarships.  A date is a tuple       *)
(* <<year, month, day>>; a funding amount is held by its whole part.        *)

\* int(digits) for a string of digits
RECURSIVE StrToInt(_)
StrToInt(digits) ==
    IF digits = <<>> THEN 0
    ELSE 10 * StrToInt(SubSeq(digits, 1, Len(digits) - 1)) + DigitValue(digits[Len(digits)])

\* the length of the run of digits at the head of s
RECURSIVE DigitRun(_)
DigitRun(s) == IF s = <<>> \/ ~IsDigit(s[1]) THEN 0 ELSE 1 + DigitRun(Tail(s))

\* the digits taken by (?:,\d{3})* at the head of s
RECURSIVE ThousandsGroups(_)
ThousandsGroups(s) ==
    IF Len(s) >= 4 /\ s[1] = "," /\ IsDigit(s[2]) /\ IsDigit(s[3]) /\ IsDigit(s[4])
    THEN SubSeq(s, 2, 4) \o ThousandsGroups(Drop(s, 4))
    ELSE <<>>

\* _parse_funding: the first match of \d+(?:,\d{3})*(?:\.\d+)? without its
\* commas, as a number; its whole part is kept
RECURSIVE _parse_funding(_)
_parse_funding(funding_str) ==
    IF funding_str = <<>> THEN 0
    ELSE IF ~IsDigit(funding_str[1]) THEN _parse_funding(Tail(funding_str))
    ELSE LET n == DigitRun(funding_str)
         IN  StrToInt(SubSeq(funding_str, 1, n) \o ThousandsGroups(Drop(funding_str, n)))

\* datetime: the days of a month and the ordinal of a date
IsLeap(year) == year % 4 = 0 /\ (year % 100 # 0 \/ year % 400 = 0)

DaysInMonth(year, month) ==
    IF month = 2 THEN (IF IsLeap(year) THEN 29 ELSE 28)
    ELSE IF month \in {4, 6, 9, 11} THEN 30 ELSE 31

RECURSIVE DaysBeforeMonth(_, _)
DaysBeforeMonth(year, month) ==
    IF month = 1 THEN 0
    ELSE DaysBeforeMonth(year, month - 1) + DaysInMonth(year, month - 1)

Ordinal(date) ==
    LET y == date[1] - 1
    IN  y * 365 + (y \div 4) - (y \div 100) + (y \div 400)
            + DaysBeforeMonth(date[1], date[2]) + date[3]

\* the strings %m accepts: 1[0-2]|0[1-9]|[1-9]
MonthField(m) ==
    \/ Len(m) = 2 /\ m[1] = "1" /\ m[2] \in {"0", "1", "2"}
    \/ Len(m) = 2 /\ m[1] = "0" /\ IsDigit(m[2]) /\ m[2] # "0"
    \/ Len(m) = 1 /\ IsDigit(m[1]) /\ m[1] # "0"

\* the strings %d accepts: 3[0-1]|[1-2]\d|0[1-9]|[1-9]| [1-9]
DayField(d) ==
    \/ Len(d) = 2 /\ d[1] = "3" /\ d[2] \in {"0", "1"}
    \/ Len(d) = 2 /\ d[1] \in {"1", "2"} /\ IsDigit(d[2])
    \/ Len(d) = 2 /\ d[1] \in {"0", " "} /\ IsDigit(d[2]) /\ d[2] # "0"
    \/ Len(d) = 1 /\ IsDigit(d[1]) /\ d[1] # "0"

\* the splits year-month-day of s that the pattern of '%Y-%m-%d' matches
\* in full: the lengths of the month and the day field
DateFields(s) ==
    {f \in {1, 2} \X {1, 2} :
        /\ Len(s) = 6 + f[1] + f[2]
        /\ \A i \in 1..4 : IsDigit(s[i])
        /\ s[5] = "-"
        /\ MonthField(SubSeq(s, 6, 5 + f[1]))
        /\ s[6 + f[1]] = "-"
        /\ DayField(SubSeq(s, 7 + f[1], 6 + f[1] + f[2]))}

\* datetime.strptime(s, '%Y-%m-%d'): the date, or <<>> where it raises
\* ValueError (no match, unconverted data, year 0, day out of range)
strptime(s) ==
    IF DateFields(s) = {} THEN <<>>
    ELSE LET f == CHOOSE g \in DateFields(s) : TRUE
             year == StrToInt(SubSeq(s, 1, 4))
             month == StrToInt(SubSeq(s, 6, 5 + f[1]))
             day == StrToInt(LStrip(SubSeq(s, 7 + f[1], 6 + f[1] + f[2])))
         IN  IF year >= 1 /\ day <= DaysInMonth(year, month)
             THEN <<year, month, day>>
             ELSE <<>>

\* (deadline - datetime.now()).days: timedelta.days rounds down, and the
\* deadline is the midnight that begins its date
DaysLeft(date, clock) ==
    Ordinal(date) - Ordinal(clock[1]) - (IF clock[2] THEN 0 ELSE 1)

\* a test that drops the deadlines it cannot parse
_is_deadline_soon_drop_unparsed(deadline_str, days, clock) ==
    /\ strptime(deadline_str) # <<>>
    /\ 0 <= DaysLeft(strptime(deadline_str), clock)
    /\ DaysLeft(strptime(deadline_str), clock) <= days

_is_deadline_soon(deadline_str, days, clock) ==
    IF strptime(deadline_str) = <<>> THEN TRUE
    ELSE /\ 0 <= DaysLeft(strptime(deadline_str), clock)
         /\ DaysLeft(strptime(deadline_str), clock) <= days

_matches_keywords(scholarship, keywords) ==
    LET text == Lower(Get(scholarship, "title", <<>>) \o <<" ">>
                      \o Get(scholarship, "description", <<>>) \o <<" ">>
                      \o Get(scholarship, "field", <<>>))
    IN  \E k \in 1..Len(keywords) : Contains(text, Lower(keywords[k]))

\* a filter is applied when its key is present with a truthy value
filter_scholarships(schs, flt, clock) ==
    LET min_funding == Get(flt, "min_funding", 0)
        max_deadline_days == Get(flt, "max_deadline_days", 0)
        keywords == Get(flt, "keywords", <<>>)
        degree == Get(flt, "degree_level", <<>>)
        country == Get(flt, "country", <<>>)
        ByFunding(x) == _parse_funding(Get(x, "funding", <<>>)) >= min_funding
        ByDeadline(x) == _is_deadline_soon(Get(x, "deadline", <<>>), max_deadline_days, clock)
        ByKeywords(x) == _matches_keywords(x, keywords)
        ByDegree(x) == Contains(Lower(Get(x, "degree", <<>>)), Lower(degree))
        ByCountry(x) == Contains(Lower(Get(x, "country", <<>>)), Lower(country))
        f1 == IF min_funding # 0 THEN SelectSeq(schs, ByFunding) ELSE schs
        f2 == IF max_deadline_days # 0 THEN SelectSeq(f1, ByDeadline) ELSE f1
        f3 == IF keywords # <<>> THEN SelectSeq(f2, ByKeywords) ELSE f2
        f4 == IF degree # <<>> THEN SelectSeq(f3, ByDegree) ELSE f3
    IN  IF country # <<>> THEN SelectSeq(f4, ByCountry) ELSE f4

MaxFiltered == 2

\* records as the scrapers deliver them
FilterPool == {
    [title |-> <<"A","l","p","h","a">>, deadline |-> <<"2","0","2","4","-","0","3","-","1","0">>, degree |-> <<"P","h","D">>,
     country |-> <<"G","e","r","m","a","n","y">>, funding |-> <<"E","U","R"," ","1",",","2","0","0",".","5","0"," ","m","o","n","t","h","l","y">>, field |-> <<"D","a","t","a"," ","s","c","i","e","n","c","e">>],
    [title |-> <<"B","e","t","a">>, deadline |-> <<"2","0","2","5","-","3","-","5">>, funding |-> <<"1","2",",","3","4">>],
    [title |-> <<"G","a","m","m","a">>, deadline |-> <<"2","0","2","5","-","0","3","-"," ","9">>],
    [title |-> <<"D","e","l","t","a">>, deadline |-> <<"2","0","2","5","-","0","2","-","3","0">>],
    [title |-> <<"E","p","s","i","l","o","n">>, deadline |-> <<"M","a","r","c","h">>],
    [title |-> <<"Z","e","t","a">>, deadline |-> <<"R","o","l","l","i","n","g">>, degree |-> <<"P","h","D">>],
    [title |-> <<"E","t","a"," ","d","a","t","a">>, country |-> <<"G","e","r","m","a","n","y">>, funding |-> <<"u","p"," ","t","o"," ","5",",","0","0","0">>],
    [title |-> <<"T","h","e","t","a">>, deadline |-> <<"2","0","2","6","-","0","1","-","0","3"," ">>],
    [title |-> <<"I","o","t","a">>, deadline |-> <<"2","0","2","5","-","1","2","-","3","1">>, funding |-> <<"5","0","0">>] }

\* Step 4 of process_scholarships: the deadline a processed record carries
WithNormalizedDeadline(x, month_now) ==
    Put(x, "deadline", _normalize_deadline(Get(x, "deadline", <<>>), month_now))

FilterChoices == {
    EmptyDict,
    [max_deadline_days |-> 0],
    [max_deadline_days |-> 5],
    [max_deadline_days |-> 30],
    [max_deadline_days |-> 5, degree_level |-> <<"p","h","d">>],
    [min_funding |-> 1000, keywords |-> <<<<"D","a","t","a">>>>, country |-> <<"g","e","r","m","a","n","y">>] }

Clocks == {<<2025, 3, 5>>, <<2025, 12, 30>>} \X BOOLEAN

\* the records were processed in the month of the clock and are then filtered
InitFilter ==
    /\ pc = "start"
    /\ now \in Clocks
    /\ current_month = now[1][2]
    /\ scholarships \in Lists({WithNormalizedDeadline(x, current_month) : x \in FilterPool},
                              MaxFiltered)
    /\ given = scholarships
    /\ filters \in FilterChoices
    /\ filtered = <<>> /\ validated = <<>>
    /\ IdleMatch /\ IdleDedup /\ IdleStandardize /\ IdleDeadline /\ IdleProcess
    /\ IdleReorder /\ IdleScrape /\ IdleClassify

FilterScholarships ==
    /\ pc = "start"
    /\ filtered' = filter_scholarships(scholarships, filters, now)
    /\ pc' = "filtered"
    /\ UNCHANGED <<pipeline_vars, reorder_vars, scrape_vars, classify_vars, filters, now,
                   validated>>

NextFilter == FilterScholarships

SpecFilter == InitFilter /\ [][NextFilter]_vars

\* only the filter 'deadline within N days' is set, with N > 0
OnlyDeadlineFilter ==
    /\ DOMAIN filters = {"max_deadline_days"}
    /\ filters.max_deadline_days > 0

\* C16 as stated: every record whose deadline does not parse as a date, and
\* so every record carrying a deadline text that the deadline normalizer
\* produced, is retained by the filter 'deadline within N days'.
C16_NormalizedDeadlinesRetained ==
    (pc = "filtered" /\ OnlyDeadlineFilter) =>
        \A i \in 1..Len(given) :
            (\/ strptime(given[i].deadline) = <<>>
             \/ \E x \in FilterPool : \E m \in Months :
                    given[i].deadline = _normalize_deadline(Get(x, "deadline", <<>>), m))
                => \E j \in 1..Len(filtered) : filtered[j] = given[i]

\* C16 as amended: the filter 'deadline within N days' keeps the records in
\* their order and removes exactly those whose deadline is accepted by
\* strptime under '%Y-%m-%d' and lies less than 0 or more than N days ahead
\* of the clock.
C16_OnlyDatedOutsideWindowRemoved ==
    (pc = "filtered" /\ OnlyDeadlineFilter) =>
        LET InWindow(x) ==
                LET date == strptime(x.deadline)
                IN  date # <<>> =>
                        LET days_left == Ordinal(date) - Ordinal(now[1])
                                             - (IF now[2] THEN 0 ELSE 1)
                        IN  days_left \in 0..filters.max_deadline_days
        IN  filtered = SelectSeq(given, InWindow)

\* of two records the one dated '2025-12-31' is removed on 5 March and the
\* one whose deadline reads 'March 2025' is retained
C16_Witness ==
    /\ pc = "filtered"
    /\ OnlyDeadlineFilter
    /\ Len(given) = 2 /\ Len(filtered) = 1
    /\ given[1].deadline = <<"2","0","2","5","-","1","2","-","3","1">>
    /\ filtered[1].deadline = <<"M","a","r","c","h"," ","2","0","2","5">>

----------------------------------------------------------------------------
(* Step 1 of process_scholarships: the validity filter on a list of raw     *)
(* records                                                                  *)

MaxValidated == 2

ValidatePool == {
    [url |-> <<"x",".","o","r","g">>, deadline |-> <<"M","a","r","c","h">>],
    [title |-> <<>>, url |-> <<"x",".","o","r","g">>],
    [title |-> <<" "," "," "," ">>],
    [title |-> <<"a","b","c","d">>],
    [title |-> <<" ","H","o","m","e"," ">>],
    [title |-> <<"n","a","v","i","g","a","t","i","o","n">>],
    [title |-> <<" "," ","F","o","l","l","o","w"," ","U","s"," "," ">>],
    [title |-> <<"1","2","3","4","5","6","7","8","9","0">>],
    [title |-> <<"1","2","3","4","5","6","7","8","9","0","1">>],
    [title |-> <<"a","b","c","\n","d","e","f","g","h","i">>],
    [title |-> <<"R","h","o","d","e","s"," ","T","r","u","s","t">>],
    [title |-> <<"R","h","o","d","e","s"," ","T","r","u","s","t">>, url |-> <<>>, deadline |-> <<"N","/","A">>, degree |-> <<"x">>],
    [title |-> <<" "," ","R","h","o","d","e","s"," ","T","r","u","s","t"," ">>, funding |-> <<" ","&","n","b","s","p",";"," ">>] }

InitValidate ==
    /\ pc = "start"
    /\ scholarships \in Lists(ValidatePool, MaxValidated)
    /\ given = scholarships
    /\ validated = <<>>
    /\ filters = <<>> /\ now = <<>> /\ filtered = <<>>
    /\ IdleClock /\ IdleMatch /\ IdleDedup /\ IdleStandardize /\ IdleDeadline /\ IdleProcess
    /\ IdleReorder /\ IdleScrape /\ IdleClassify

\* valid_scholarships = [s for s in scholarships if self._is_valid(s)]
Validate ==
    /\ pc = "start"
    /\ validated' = SelectSeq(scholarships, _is_valid)
    /\ pc' = "validated"
    /\ UNCHANGED <<pipeline_vars, reorder_vars, scrape_vars, classify_vars,
                   filters, now, filtered>>

NextValidate == Validate

SpecValidate == InitValidate /\ [][NextValidate]_vars

\* the trimmed title of a record, empty when the record has none
TrimmedTitle(r) == Strip(IF "title" \in DOMAIN r THEN r.title ELSE <<>>)

\* a navigation label or the name of a social medium, in any case of letters
NavigationOrSocial(t) == \E w \in NoiseLabels : Lower(t) = w

\* a bare short string: at most ten characters on one line
BareShortString(t) == Len(t) <= ShortTitleLen /\ \A i \in 1..Len(t) : t[i] # "\n"

\* the verdict the claim gives on a title
RejectedTitle(t) ==
    \/ t = <<>>
    \/ Len(t) < MinTitleLen
    \/ NavigationOrSocial(t)
    \/ BareShortString(t)

\* C17: the validity filter rejects a record when its trimmed title is
\* absent, empty, shorter than 5 characters or matches a noise pattern, and
\* passes every other record through as it is and in its place; so every
\* record that reaches deduplication has a trimmed title of 5 or more
\* characters that matches no noise pattern.
C17_ValidityDependsOnTitleOnly ==
    pc = "validated" =>
        LET Accepted(r) == ~RejectedTitle(TrimmedTitle(r))
        IN  /\ validated = SelectSeq(given, Accepted)
            /\ scholarships = given
            /\ \A i \in 1..Len(validated) :
                   /\ Len(TrimmedTitle(validated[i])) >= MinTitleLen
                   /\ ~NavigationOrSocial(TrimmedTitle(validated[i]))
                   /\ ~BareShortString(TrimmedTitle(validated[i]))

\* a label between blanks was rejected and a title between blanks was passed
\* through with its blanks and its other fields
C17_Witness ==
    /\ pc = "validated"
    /\ Len(given) = 2
    /\ given[1].title = <<" "," ","F","o","l","l","o","w"," ","U","s"," "," ">>
    /\ validated = << [title |-> <<" "," ","R","h","o","d","e","s"," ","T","r","u","s","t"," ">>, funding |-> <<" ","&","n","b","s","p",";"," ">>] >>

----------------------------------------------------------------------------
(* _smart_deduplicate on validated records most of which no family claims *)

MaxUngrouped == 3

UngroupedPool == {
    [title |-> <<"G","a","t","e","s"," ","A","w","a","r","d","s">>, url |-> <<"g",".","o","r","g">>],
    [title |-> <<"T","h","e"," ","G","a","t","e","s"," ","A","w","a","r","d","s">>, url |-> <<"g",".","o","r","g","/","2">>, funding |-> <<"f","u","l","l">>],
    [title |-> <<"R","h","o","d","e","s"," ","T","r","u","s","t">>, degree |-> <<"M","S","c">>],
    [title |-> <<"R","h","o","d","e","s"," ","(","T","r","u","s","t",")">>, url |-> <<"r",".","o","r","g">>],
    [title |-> <<"E","r","a","s","m","u","s"," ","A","I"," ","l","a","b">>, url |-> <<"e",".","e","u","/","a","i">>] }

InitUngrouped ==
    /\ pc = "start"
    /\ scholarships \in Lists({r \in UngroupedPool : _is_valid(r)}, MaxUngrouped)
    /\ given = scholarships
    /\ unique = <<>> /\ unique2 = <<>>
    /\ IdleClock /\ IdleMatch /\ IdleStandardize /\ IdleDeadline /\ IdleProcess
    /\ IdleFurther

NextUngrouped == SmartDeduplicate

SpecUngrouped == InitUngrouped /\ [][NextUngrouped]_vars

\* the records of a list that no family claims, in the order of the list
Unclassified(list) ==
    LET NoFamily(r) == ~Classified(r) IN SelectSeq(list, NoFamily)

\* the positions of a list whose title signature no earlier position carries
FirstSeen(list) ==
    {i \in 1..Len(list) :
        \A j \in 1..(i - 1) :
            _normalize_title(Get(list[j], "title", <<>>))
                # _normalize_title(Get(list[i], "title", <<>>))}

\* the output keeps of the input exactly the records that are first of their
\* signature, as they are and in the order of the input
FirstOfSignatureKept(input, output) ==
    LET kept == FirstSeen(input)
    IN  /\ Len(output) = Cardinality(kept)
        /\ \A k \in 1..Len(output) :
               \E i \in kept :
                   /\ Cardinality({j \in kept : j <= i}) = k
                   /\ output[k] = input[i]
        /\ \A k \in 1..Len(output) : "alternate_urls" \notin DOMAIN output[k]

\* C20: of the validated records of no family, _smart_deduplicate returns for
\* each title signature the first record carrying it, unchanged and without
\* alternate_urls, drops every later record of that signature, and keeps the
\* order of the input.
C20_UngroupedFirstSeenKept ==
    pc = "deduplicated" =>
        FirstOfSignatureKept(Unclassified(given), Unclassified(unique))

\* a record is followed by a more complete record of the same signature, a
\* record of another signature between them: the first and the other are
\* returned in this order, the more complete one is dropped
C20_Witness ==
    /\ pc = "deduplicated"
    /\ Len(given) = 3
    /\ given[1].title = <<"G","a","t","e","s"," ","A","w","a","r","d","s">>
    /\ given[2].title = <<"R","h","o","d","e","s"," ","T","r","u","s","t">>
    /\ given[3].title = <<"T","h","e"," ","G","a","t","e","s"," ","A","w","a","r","d","s">>
    /\ "funding" \in DOMAIN given[3] /\ "funding" \notin DOMAIN given[1]
    /\ unique = <<given[1], given[2]>>

----------------------------------------------------------------------------
(* _smart_deduplicate on records of no family whose titles are alike *)

MaxSimilar == 2

SimilarPool == {
    [title |-> <<"R","h","o","d","e","s"," ","T","r","u","s","t"," ","F","u","n","d">>],
    [title |-> <<"T","r","u","s","t"," ","R","h","o","d","e","s"," ","F","u","n","d">>],
    [title |-> <<"T","h","e"," ","R","h","o","d","e","s"," ","F","u","n","d">>],
    [title |-> <<"R","h","o","d","e","s"," ","T","h","e"," ","F","u","n","d">>],
    [title |-> <<"U","K"," ","M","S","c"," ","A","I"," ","M","L"," ","C","S"," ","2","0","2","5">>],
    [title |-> <<"U","K"," ","M","S","c"," ","A","I"," ","M","L"," ","C","S"," ","2","0","2","6">>],
    [title |-> <<"U","K"," ","M","S","c"," ","A","I"," ","M","L"," ","C","S">>],
    [title |-> <<"M","a","r","i","n","e"," ","B","i","o","l","o","g","y"," ","-"," ","P","r","i","z","e">>] }

InitSimilar ==
    /\ pc = "start"
    /\ scholarships \in Lists({r \in SimilarPool : _is_valid(r)}, MaxSimilar)
    /\ given = scholarships
    /\ unique = <<>> /\ unique2 = <<>>
    /\ IdleClock /\ IdleMatch /\ IdleStandardize /\ IdleDeadline /\ IdleProcess
    /\ IdleFurther

NextSimilar == SmartDeduplicate

SpecSimilar == InitSimilar /\ [][NextSimilar]_vars

\* the five-word window of the signature
Window(words) ==
    SubSeq(words, 1, IF Len(words) < SignatureWords THEN Len(words) ELSE SignatureWords)

\* two different lists of the same words
Reordered(a, b) ==
    /\ a # b
    /\ Len(a) = Len(b)
    /\ \E q \in Orderings(1..Len(a)) : b = [i \in 1..Len(a) |-> a[q[i]]]

\* two lists that agree on five words or more and differ after them
DifferBeyondWindow(a, b) ==
    /\ a # b
    /\ Len(a) >= SignatureWords /\ Len(b) >= SignatureWords
    /\ Window(a) = Window(b)

\* the words of a title as written, in lower case
TitleWords(r) == Split(Lower(r.title))

\* the words of a title that the signature is cut from: lower case, the
\* filler words and punctuation tokens taken out
SignificantWords(r) ==
    Split(CollapseWhitespace(ReplaceNoise(Strip(Lower(r.title)), 1)))

\* the single characters of the list of noise words, and its words
PunctuationTokens ==
    {NoiseWords[i][1] : i \in {j \in 1..Len(NoiseWords) :
        Len(NoiseWords[j]) = 1 /\ ~IsWordChar(NoiseWords[j][1])}}

FillerWords ==
    {NoiseWords[i] : i \in {j \in 1..Len(NoiseWords) :
        ~(Len(NoiseWords[j]) = 1 /\ ~IsWordChar(NoiseWords[j][1]))}}

\* the signature as the first five whole words of the lower-cased title that
\* remain when the punctuation tokens are blanked and the filler words left out
WholeWordSignature(title) ==
    LET lowered == Lower(title)
        blanked == [i \in 1..Len(lowered) |->
                       IF lowered[i] \in PunctuationTokens THEN " " ELSE lowered[i]]
        NotFiller(w) == w \notin FillerWords
    IN  Join(<<" ">>, Window(SelectSeq(Split(blanked), NotFiller)))

\* C22: the signature of a title is the first five words, joined by single
\* blanks, of the lower-cased title without the filler words (as words) and
\* the punctuation tokens; the other words of the title appear in it intact.
C22_SignatureOfWholeWords ==
    pc = "deduplicated" =>
        \A i \in 1..Len(given) :
            _normalize_title(given[i].title) = WholeWordSignature(given[i].title)

\* two records of no family were deduplicated
PairOfNoFamily ==
    /\ pc = "deduplicated"
    /\ Len(given) = 2
    /\ ~Classified(given[1]) /\ ~Classified(given[2])

----------------------------------------------------------------------------
(* _standardize on records that differ in degree, URL and funding text *)

DegreePool == {
    <<"B","a","c","h","e","l","o","r"," ","o","f"," ","A","r","t","s">>, <<"U","N","D","E","R","G","R","A","D","U","A","T","E">>, <<"U","n","d","e","r","g","r","a","d","u","a","t","e"," ","a","n","d"," ","P","o","s","t","g","r","a","d","u","a","t","e">>,
    <<"P","h","D"," ","o","r"," ","M","a","s","t","e","r","s">>, <<"p","o","s","t","g","r","a","d","u","a","t","e"," ","d","i","p","l","o","m","a">>, <<"D","o","c","t","o","r","a","t","e">>,
    <<"P","o","s","t","d","o","c","t","o","r","a","l">>, <<"P","o","s","t","d","o","c">>, <<"M","S","c">>, <<>> }

UrlPool == {
    <<"x",".","o","r","g">>, <<"h","t","t","p",":","/","/","x",".","o","r","g">>, <<"h","t","t","p","s",":","/","/","x",".","o","r","g">>, <<"H","T","T","P",":","/","/","x",".","o","r","g">>,
    <<"f","t","p",":","/","/","x",".","o","r","g">>, <<"h","t","t","p","b","i","n",".","o","r","g","/","g","e","t">>, <<>> }

FundingPool == {<<"F","u","l","l"," "," ","t","u","i","t","i","o","n">>, <<"a"," ","&","n","b","s","p",";"," ","b">>, <<" ">>, <<" ","R","&","a","m","p",";","D"," ">>, <<>>}

FieldRecords ==
    {[title |-> <<"R","h","o","d","e","s"," ","T","r","u","s","t">>, degree |-> d, url |-> u, funding |-> f] :
        d \in DegreePool, u \in UrlPool, f \in FundingPool}

FieldKeySets ==
    {{"title", "degree", "url", "funding"}, {"title", "degree"},
     {"title", "url"}, {"title", "funding"}}

InitFields ==
    /\ pc = "start"
    /\ record \in {Restrict(r, K) : r \in FieldRecords, K \in FieldKeySets}
    /\ std1 = EmptyDict /\ std2 = EmptyDict
    /\ IdleClock /\ IdleMatch /\ IdleDedup /\ IdleDeadline /\ IdleProcess /\ IdleList
    /\ IdleFurther

NextFields == Standardize

SpecFields == InitFields /\ [][NextFields]_vars

\* the substrings looked for, in their order of priority, and the labels
DegreeRules == <<
    <<{<<"b","a","c","h","e","l","o","r">>, <<"u","n","d","e","r","g","r","a","d","u","a","t","e">>}, <<"B","a","c","h","e","l","o","r","'","s">>>>,
    <<{<<"m","a","s","t","e","r">>, <<"p","o","s","t","g","r","a","d","u","a","t","e">>}, <<"M","a","s","t","e","r","'","s">>>>,
    <<{<<"p","h","d">>, <<"d","o","c","t","o","r","a","l">>, <<"d","o","c","t","o","r","a","t","e">>}, <<"P","h","D">>>>,
    <<{<<"p","o","s","t","d","o","c">>}, <<"P","o","s","t","d","o","c","t","o","r","a","l">>>> >>

\* the rules a degree text matches, whatever its case
DegreeRulesIn(degree) ==
    {i \in 1..Len(DegreeRules) :
        \E w \in DegreeRules[i][1] : Contains(Lower(degree), w)}

\* C23: the standardized degree is the label of the first rule, in the order
\* bachelor/undergraduate, master/postgraduate, phd/doctoral/doctorate,
\* postdoc, that the degree matches as a substring whatever its case, and
\* the degree itself when it matches none.
C23_DegreeFirstMatchingLabel ==
    pc = "standardized" =>
        LET degree == IF "degree" \in DOMAIN record THEN record.degree ELSE <<>>
            rules == DegreeRulesIn(degree)
        IN  /\ rules = {} => std1.degree = degree
            /\ \A i \in rules :
                   (\A j \in rules : i <= j) => std1.degree = DegreeRules[i][2]

\* a degree that matches the third rule and the fourth got the label of the
\* third
C23_Witness ==
    /\ pc = "standardized"
    /\ "degree" \in DOMAIN record
    /\ DegreeRulesIn(record.degree) = {3, 4}
    /\ std1.degree = <<"P","h","D">>

\* a text without blanks at its ends and without two blanks in a row
Tidy(text) ==
    /\ text # <<>>
    /\ text[1] \notin Whitespace /\ text[Len(text)] \notin Whitespace
    /\ \A i \in 1..(Len(text) - 1) :
           ~(text[i] \in Whitespace /\ text[i + 1] \in Whitespace)

\* C24: after standardization each free-text field present has a value that
\* is not empty, has no blank at either end and no two blanks in a row.
C24_TextFieldsTidy ==
    pc = "standardized" =>
        \A f \in TextFields \cap DOMAIN std1 : Tidy(std1[f])

\* a scheme prefix: letters followed by ://
HasScheme(url) ==
    \E n \in 1..(Len(url) - 3) :
        /\ \A i \in 1..n :
               \E k \in 1..Len(LowerCase) : url[i] \in {LowerCase[k], UpperCase[k]}
        /\ SubSeq(url, n + 1, n + 3) = <<":","/","/">>

\* C25: after standardization a non-empty URL without a scheme prefix is
\* 'https://' followed by the URL, a URL with a scheme prefix is unchanged,
\* and an empty or absent URL is left as it is.
C25_UrlAbsolute ==
    pc = "standardized" =>
        IF "url" \notin DOMAIN record THEN "url" \notin DOMAIN std1
        ELSE IF record.url = <<>> \/ HasScheme(record.url) THEN std1.url = record.url
        ELSE std1.url = <<"h","t","t","p","s",":","/","/">> \o record.url

----------------------------------------------------------------------------
(* the country and field components of _calculate_match_score on records   *)
(* and profiles that differ in country and field                           *)

ScoreRecords ==
    {Restrict([title |-> <<"T">>, country |-> c, field |-> f], K) :
        c \in {<<"G","E","R","M","A","N","Y",","," ","F","r","a","n","c","e">>, <<"V","a","r","i","o","u","s"," ","c","o","u","n","t","r","i","e","s">>, <<"M","u","l","t","i","p","l","e">>, <<"F","r","a","n","c","e">>, <<>>},
        f \in {<<"a","l","l">>, <<"A","l","l"," ","F","i","e","l","d","s">>, <<"S","m","a","l","l","h","o","l","d","e","r"," ","f","a","r","m","i","n","g">>, <<"H","u","m","a","n","i","t","i","e","s">>,
               <<"c","o","m","p","u","t","e","r"," ","v","i","s","i","o","n">>, <<"s","t","e","m">>, <<"m","e","d","i","c","i","n","e">>},
        K \in {{"title", "country", "field"}, {"title", "country"},
               {"title", "field"}, {"title"}}}

ScoreProfiles ==
    {Restrict([country |-> c, field_of_study |-> f, cgpa |-> 300], K) :
        c \in {AnyCountry, <<"G","e","r","m","a","n","y">>, <<"g","e","r","m","a","n","y">>, <<"U","K">>, <<"a","n","y"," ","c","o","u","n","t","r","y">>, <<>>},
        f \in {<<"A","l","l"," ","F","i","e","l","d","s">>, <<"C","o","m","p","u","t","e","r"," ","S","c","i","e","n","c","e">>, <<"f","a","r","m","i","n","g">>, <<"E","n","g","i","n","e","e","r","i","n","g">>, <<"l","a","w">>},
        K \in {{"country", "field_of_study", "cgpa"}, {"country", "cgpa"},
               {"field_of_study"}, {}}}

InitScore ==
    /\ pc = "start"
    /\ record \in ScoreRecords
    /\ profile \in ScoreProfiles
    /\ ranked = <<>>
    /\ IdleClassify
    /\ std1 = EmptyDict /\ std2 = EmptyDict
    /\ IdleClock /\ IdleDedup /\ IdleDeadline /\ IdleProcess /\ IdleList
    /\ IdleReorder /\ IdleScrape /\ IdleFilter

\* _calculate_match_score(record, profile), component by component
ScoreComponents ==
    /\ pc = "start"
    /\ components' =
           [country |-> _score_country(record, profile),
            degree  |-> _score_degree(record, profile),
            field   |-> _score_field(record, profile),
            cgpa    |-> _score_cgpa(record, profile),
            funding |-> _score_funding(record),
            total   |-> _calculate_match_score(record, profile)]
    /\ pc' = "scored"
    /\ UNCHANGED <<pipeline_vars, reorder_vars, scrape_vars, filter_vars,
                   family_key, sub_key, tried, reached>>

NextScore == ScoreComponents

SpecScore == InitScore /\ [][NextScore]_vars

\* C26: the country component is 15 when the profile asks for 'Any Country'
\* or names no country; otherwise 30 when the desired country occurs in the
\* record's country whatever the case; otherwise 20 when the record's country
\* contains 'various' or 'multiple'; otherwise 5; it is never above 30.
C26_CountryComponent ==
    pc = "scored" =>
        LET have == Lower(IF "country" \in DOMAIN record THEN record.country ELSE <<>>)
        IN  /\ components.country <= 30
            /\ ("country" \notin DOMAIN profile \/ profile.country = <<"A","n","y"," ","C","o","u","n","t","r","y">>)
                   <=> components.country = 15
            /\ ("country" \in DOMAIN profile /\ profile.country # <<"A","n","y"," ","C","o","u","n","t","r","y">>) =>
                   /\ Contains(have, Lower(profile.country)) <=> components.country = 30
                   /\ ~Contains(have, Lower(profile.country)) =>
                          components.country =
                              (IF Contains(have, <<"v","a","r","i","o","u","s">>) \/ Contains(have, <<"m","u","l","t","i","p","l","e">>)
                               THEN 20 ELSE 5)

\* the profile writes the country in lower case, the record in upper case
C26_Witness ==
    /\ pc = "scored"
    /\ "country" \in DOMAIN profile /\ profile.country = <<"g","e","r","m","a","n","y">>
    /\ "country" \in DOMAIN record /\ record.country = <<"G","E","R","M","A","N","Y",","," ","F","r","a","n","c","e">>
    /\ components.country = 30

\* the profile field and the record field as the score reads them
DesiredField == Lower(IF "field_of_study" \in DOMAIN profile
                      THEN profile.field_of_study ELSE <<"A","l","l"," ","F","i","e","l","d","s">>)

RecordField == Lower(IF "field" \in DOMAIN record THEN record.field ELSE <<>>)

\* the two fields have a word in common
SharedTerm == FindallWords(DesiredField) \cap FindallWords(RecordField) # {}

\* a key of the table occurs in the profile field and one of its related
\* terms in the record field
RelatedFields ==
    \E k \in 1..Len(field_groups) :
        /\ Contains(DesiredField, field_groups[k][1])
        /\ \E w \in 1..Len(field_groups[k][2]) :
               Contains(RecordField, field_groups[k][2][w])

\* the score of the three lower branches
FieldBelowNeutral == IF SharedTerm THEN 20 ELSE IF RelatedFields THEN 15 ELSE 5

\* C27 as stated: the field component is 10 when the profile field is
\* 'all fields' or the record field is 'all'; otherwise 20 on a shared term,
\* otherwise 15 on related fields, otherwise 5.
C27_NeutralWhenRecordFieldIsAll ==
    pc = "scored" =>
        components.field =
            (IF DesiredField = <<"a","l","l"," ","f","i","e","l","d","s">> \/ RecordField = <<"a","l","l">>
             THEN 10 ELSE FieldBelowNeutral)

\* C27: the field component is 10 when the profile field is 'all fields' or
\* the record field contains 'all'; otherwise 20 on a shared term, otherwise
\* 15 on related fields, otherwise 5.
C27_NeutralWhenRecordFieldContainsAll ==
    pc = "scored" =>
        components.field =
            (IF DesiredField = <<"a","l","l"," ","f","i","e","l","d","s">> \/ Contains(RecordField, <<"a","l","l">>)
             THEN 10 ELSE FieldBelowNeutral)

\* the record field shares a word with the profile field and has 'all'
\* inside another word: the component is 10
C27_Witness ==
    /\ pc = "scored"
    /\ DesiredField = <<"f","a","r","m","i","n","g">>
    /\ RecordField = <<"s","m","a","l","l","h","o","l","d","e","r"," ","f","a","r","m","i","n","g">>
    /\ components.field = 10

----------------------------------------------------------------------------
(* _parallel_scrape when a fetch may block for ever.  The executor hands a  *)
(* queued task to a free worker, the loop takes every future that is done  *)
(* and the function returns when the loop ends; a task that runs either    *)
(* comes to an end or blocks.  The only timeout of the code is that of     *)
(* future.result(timeout=40), called on futures as_completed has yielded,  *)
(* which are done: as_completed itself is called without a timeout.        *)

\* get_scholarships of scraper s blocks and never returns
TaskHangs(s) ==
    /\ pc = "scraping"
    /\ task[s] = "running"
    /\ task' = [task EXCEPT ![s] = "hung"]
    /\ UNCHANGED <<pc, pipeline_vars, reorder_vars, classify_vars, filter_vars,
                   result, yielded, all_scholarships, completed, runs>>

NextScrapeHang ==
    \/ NextScrape
    \/ \E s \in DOMAIN task : TaskHangs(s)

\* a running task ends one way or another
TaskEnds ==
    \E s \in DOMAIN task :
        TaskReturns(s) \/ TaskReturnsNothing(s) \/ TaskRaises(s) \/ TaskHangs(s)

SpecScrapeHang ==
    /\ InitScrape
    /\ [][NextScrapeHang]_vars
    /\ WF_vars(\E s \in DOMAIN task : TaskStart(s))
    /\ WF_vars(TaskEnds)
    /\ WF_vars(\E s \in DOMAIN task : Collect(s))
    /\ WF_vars(ReturnScraped)

\* C28: _parallel_scrape eventually returns, also when the fetch of a source
\* never completes.
C28_ScrapeEventuallyReturns == <>(pc = "scraped")

----------------------------------------------------------------------------
(* _identify_family on texts made of each keyword of the family table, one  *)
(* keyword after the other in the order of the table                       *)

\* the keywords of the table, each with the position of its family
AllKeywords ==
    LET RECURSIVE From(_, _)
        From(i, k) ==
            IF i > Len(SCHOLARSHIP_FAMILIES) THEN <<>>
            ELSE IF k > Len(SCHOLARSHIP_FAMILIES[i][2]) THEN From(i + 1, 1)
            ELSE <<[family |-> i, keyword |-> SCHOLARSHIP_FAMILIES[i][2][k]]>>
                     \o From(i, k + 1)
    IN  From(1, 1)

\* records that carry a keyword in the title or in the URL
RecordsWith(keyword) == {
    [title |-> keyword],
    [url |-> keyword],
    [title |-> <<"T","h","e"," ">> \o keyword \o <<" ","a","w","a","r","d">>, url |-> <<"x",".","o","r","g">>],
    [title |-> <<"A","w","a","r","d">>, url |-> <<"x",".","o","r","g","/">> \o keyword] }

InitFamilies ==
    /\ pc = "start"
    /\ record = EmptyDict /\ std1 = EmptyDict /\ std2 = EmptyDict
    /\ IdleClock /\ IdleMatch /\ IdleDedup /\ IdleDeadline /\ IdleProcess /\ IdleList
    /\ IdleFurther

\* the next keyword of the table is classified
IdentifyNextKeyword ==
    /\ pc = "start"
    /\ tried < Len(AllKeywords)
    /\ \E r \in RecordsWith(AllKeywords[tried + 1].keyword) :
           /\ record' = r
           /\ family_key' = _identify_family(r)
           /\ reached' = reached \cup ({_identify_family(r)} \ {<<>>})
    /\ tried' = tried + 1
    /\ UNCHANGED <<pc, current_month, profile, scholarships, unique, unique2, ranked,
                   std1, std2, deadline, deadline_out, processed, processed2, given>>
    /\ UNCHANGED <<reorder_vars, scrape_vars, filter_vars, sub_key, components>>

\* every keyword of the table was classified
AllKeywordsTried ==
    /\ pc = "start"
    /\ tried = Len(AllKeywords)
    /\ pc' = "all tried"
    /\ UNCHANGED <<pipeline_vars, further_vars>>

NextFamilies == IdentifyNextKeyword \/ AllKeywordsTried

SpecFamilies == InitFamilies /\ [][NextFamilies]_vars

\* C29: every family of the table is returned by _identify_family for some
\* text: once the keywords of all families were classified, every family id
\* of the table was reached.
C29_EveryFamilyReachable ==
    pc = "all tried" => reached = FamilyIds

----------------------------------------------------------------------------
(* process_scholarships called on its own output in the same calendar month *)

MaxReprocessed == 2

ReprocessPool == {
    [title |-> <<"F","u","l","b","r","i","g","h","t"," ","F","o","r","e","i","g","n"," ","S","t","u","d","e","n","t">>, degree |-> <<"M","a","s","t","e","r","s">>, url |-> <<"a",".","o","r","g">>],
    [title |-> <<"F","u","l","b","r","i","g","h","t"," ","P","r","o","g","r","a","m"," ","A","w","a","r","d">>, degree |-> <<"M","a","s","t","e","r"," ","o","f"," ","S","c","i","e","n","c","e">>,
     url |-> <<"b",".","o","r","g">>],
    [title |-> <<"R","h","o","d","e","s"," ","S","c","h","o","l","a","r","s","h","i","p">>, deadline |-> <<"3","1"," ","d","e","c">>, country |-> <<"u","k">>],
    [title |-> <<"D","A","A","D"," ","R","e","s","e","a","r","c","h"," ","G","r","a","n","t">>, deadline |-> <<"M","a","r","c","h"," ","2","0","2","4">>, url |-> <<"d","a","a","d",".","d","e">>],
    [title |-> <<"C","h","e","v","e","n","i","n","g"," ","A","w","a","r","d","s">>, deadline |-> <<"s","o","o","n">>, degree |-> <<"P","h","D">>],
    [title |-> <<"H","o","m","e">>, deadline |-> <<"1"," ","M","a","y">>] }

InitReprocess ==
    /\ pc = "start"
    /\ current_month \in Months
    /\ scholarships \in Lists(ReprocessPool, MaxReprocessed)
    /\ given = scholarships
    /\ IdleProcess
    /\ IdleMatch /\ IdleDedup /\ IdleStandardize /\ IdleDeadline
    /\ IdleFurther

ProcessScholarshipsAgain ==
    /\ pc = "processed"
    /\ processed2' \in process_scholarships(processed, current_month)
    /\ pc' = "processed twice"
    /\ UNCHANGED <<current_month, profile, scholarships, unique, unique2, ranked,
                   record, std1, std2, deadline, deadline_out, processed, given>>
    /\ UNCHANGED further_vars

NextReprocess == ProcessScholarships \/ ProcessScholarshipsAgain

SpecReprocess == InitReprocess /\ [][NextReprocess]_vars

\* C30: processing the output of process_scholarships again in the same
\* calendar month returns the same number of records with the same field
\* values.
C30_ProcessIdempotent ==
    pc = "processed twice" => processed2 = processed

====
